---- MODULE Spec2Model ----
(***************************************************************************)
(* The streaming ingestion pipeline of @pulse8-ai/chat:                    *)
(*   - the guarded JSON decoder and the SSE line parser                    *)
(*     (src/src/utils/streaming.ts),                                       *)
(*   - the provider adapters (src/src/adapters/openai.ts, anthropic.ts,    *)
(*     and the Gemini adapter),                                            *)
(*   - the stream driver streamSSE (src/src/utils/streaming.ts),           *)
(*   - the stream configuration used by useChatMessages.sendMessage,       *)
(*   - the message state of the hook useChatMessages                       *)
(*     (src/src/hooks/useChatMessages.ts).                                 *)
(*                                                                         *)
(* Text is modelled by TLA+ strings (TLC treats a string as the sequence   *)
(* of its characters: Len, SubSeq and \o apply).  A decoded JSON value is  *)
(* a tagged record [t, v].                                                 *)
(***************************************************************************)
EXTENDS Integers, Sequences, FiniteSets, TLC

VARIABLES
    (* createSSEParser / parseSSELine *)
    text,         \* the whole input text (the response body, when streamed)
    pos,          \* number of characters of text handed over so far
    options,      \* ISSEParserOptions of the parser instance
    buffer,       \* createSSEParser: let buffer
    delivered,    \* values passed to options.onData, in order
    cutMidLine,   \* history: some chunk so far ended inside a line
    (* adapters *)
    kind,         \* which adapter factory the instances come from
    toolState,    \* per closure: toolCallsInProgress / toolUseInProgress
    fed,          \* per instance: the frames it was invoked with, in order
    emitted,      \* per instance: what each invocation returned, in order
    threw,        \* an adapter invocation raised an exception
    (* streamSSE *)
    pc,           \* where the streamSSE call is
    aborted,      \* options.signal.aborted
    abortedAt,    \* history: the await the call was at when the signal fired
    ending,       \* history: what ended the call
    calls,        \* callbacks invoked so far: onEvent(e) / onComplete / onError
    response,     \* what fetch resolved with
    (* useChatMessages with streamConfig *)
    configMode,   \* how the caller builds streamConfig
    turn,         \* number of streaming calls started by sendMessage
    stateAtStart, \* history: the adapter state each streaming call began with
    (* one call of safeJsonParse or parseSSELine *)
    arg,          \* the arguments of the call
    result,       \* whether the call returned, and what
    (* useChatMessages: state, refs and options *)
    messages,               \* useState<IMessage[]>([])
    isStreaming,            \* useState(false)
    accumulatedContentRef,  \* useRef("")
    contentSegmentsRef,     \* useRef<IContentSegment[]>([])
    currentTextSegmentRef,  \* useRef("")
    abortControllerRef,     \* useRef<AbortController | null>(null): set or not
    maxMessages,            \* options.maxMessages
    idsIssued,              \* number of ids generateId has returned
    historyBefore,    \* history: messages when the last sendMessage was called
    untrimmed,        \* history: ids the history would hold were nothing trimmed
    handled,          \* history: events handleStreamEvent got in this turn
    disturbed,        \* history: the turn saw clearChat or appendMessage
    latePending       \* terminal callbacks of cancelled calls still to run

parserVars  == <<text, pos, options, buffer, delivered, cutMidLine>>
adapterVars == <<kind, toolState, fed, emitted, threw>>
streamVars  == <<pc, aborted, abortedAt, response, ending, calls, response>>
hookVars    == <<configMode, turn, stateAtStart>>
decoderVars == <<arg, result>>
chatVars    == <<messages, isStreaming, accumulatedContentRef, contentSegmentsRef,
                 currentTextSegmentRef, abortControllerRef, maxMessages, idsIssued,
                 historyBefore, untrimmed, handled, disturbed, latePending>>
vars        == <<parserVars, adapterVars, streamVars, hookVars, decoderVars, chatVars>>

(***************************************************************************)
(* JavaScript values                                                       *)
(***************************************************************************)
JNull      == [t |-> "null",  v |-> 0]
JUndef     == [t |-> "undef", v |-> 0]
JStr(s)    == [t |-> "str",   v |-> s]
JNum(n)    == [t |-> "num",   v |-> n]
JBool(b)   == [t |-> "bool",  v |-> b]
JArr(xs)   == [t |-> "arr",   v |-> xs]
\* an object: its own properties in insertion order, <<[k |-> key, v |-> value]>>
JObj(ps)   == [t |-> "obj",   v |-> ps]

IsNull(x)    == x.t = "null"
\* x === null || x === undefined  (what ?. and ?? test)
Nullish(x)   == x.t \in {"null", "undef"}
\* typeof x === 'object' && x !== null
IsObjectLike(x) == x.t \in {"obj", "arr"}

\* ToBoolean
Truthy(x) ==
    CASE x.t = "null"  -> FALSE
      [] x.t = "undef" -> FALSE
      [] x.t = "bool"  -> x.v
      [] x.t = "num"   -> x.v # 0
      [] x.t = "str"   -> x.v # ""
      [] OTHER         -> TRUE

\* s.slice(i - 1, j), clipped to the string like String.prototype.slice
Sub(s, i, j) ==
    LET a == IF i < 1 THEN 1 ELSE i
        b == IF j > Len(s) THEN Len(s) ELSE j
    IN  IF a > b THEN "" ELSE SubSeq(s, a, b)
\* the character at index i, "" past the end
Char(s, i) == Sub(s, i, i)

Digits == <<"0", "1", "2", "3", "4", "5", "6", "7", "8", "9">>
IsDigit(c) == \E d \in 1..10 : Digits[d] = c
DigitVal(c) == (CHOOSE d \in 1..10 : Digits[d] = c) - 1

RECURSIVE NatStr(_)
NatStr(n) == IF n < 10 THEN Digits[n + 1] ELSE NatStr(n \div 10) \o Digits[(n % 10) + 1]

\* String(x) / template-literal conversion
RECURSIVE ToStr(_), JoinElems(_, _)
ToStr(x) ==
    CASE x.t = "str"   -> x.v
      [] x.t = "num"   -> IF x.v < 0 THEN "-" \o NatStr(-x.v) ELSE NatStr(x.v)
      [] x.t = "bool"  -> IF x.v THEN "true" ELSE "false"
      [] x.t = "null"  -> "null"
      [] x.t = "undef" -> "undefined"
      [] x.t = "arr"   -> JoinElems(x.v, 1)
      [] OTHER         -> "[object Object]"
\* Array.prototype.join(","): null and undefined elements give ""
JoinElems(xs, i) ==
    IF i > Len(xs) THEN ""
    ELSE (IF Nullish(xs[i]) THEN "" ELSE ToStr(xs[i]))
         \o (IF i < Len(xs) THEN "," ELSE "") \o JoinElems(xs, i + 1)

\* own property lookup on a parsed object
RECURSIVE ObjGetFrom(_, _, _)
ObjGetFrom(ps, k, i) ==
    IF i > Len(ps) THEN JUndef
    ELSE IF ps[i].k = k THEN ps[i].v
    ELSE ObjGetFrom(ps, k, i + 1)
ObjGet(o, k) == ObjGetFrom(o.v, k, 1)

\* JSON.parse keeps one property per key: a repeated key overwrites the value
\* and keeps the position of the first occurrence
ObjSet(ps, k, val) ==
    IF \E i \in 1..Len(ps) : ps[i].k = k
    THEN [i \in 1..Len(ps) |-> IF ps[i].k = k THEN [k |-> k, v |-> val] ELSE ps[i]]
    ELSE Append(ps, [k |-> k, v |-> val])

\* x.name for a value x that is neither null nor undefined.  The names the
\* adapters read (choices, delta, content, ...) are own properties of parsed
\* objects only: arrays, strings, numbers and booleans give undefined.
Prop(x, name) == IF x.t = "obj" THEN ObjGet(x, name) ELSE JUndef

\* x?.name
OptProp(x, name) == IF Nullish(x) THEN JUndef ELSE Prop(x, name)

\* x?.[0]
OptFirst(x) ==
    CASE Nullish(x)  -> JUndef
      [] x.t = "arr" -> IF Len(x.v) > 0 THEN x.v[1] ELSE JUndef
      [] x.t = "str" -> IF Len(x.v) > 0 THEN JStr(Char(x.v, 1)) ELSE JUndef
      [] x.t = "obj" -> ObjGet(x, "0")
      [] OTHER       -> JUndef

\* for (const item of x): arrays and strings are iterable, nothing else that
\* JSON.parse returns is
Iterable(x) == x.t \in {"arr", "str"}
Items(x) ==
    IF x.t = "arr" THEN x.v ELSE [i \in 1..Len(x.v) |-> JStr(Char(x.v, i))]

(***************************************************************************)
(* JSON.parse and JSON.stringify, on JSON without escape sequences,        *)
(* fractions and exponents (the inputs below hold none)                    *)
(***************************************************************************)
IsWs(c) == c \in {" ", "\t", "\r", "\n"}

RECURSIVE SkipWs(_, _)
SkipWs(s, i) == IF i <= Len(s) /\ IsWs(Char(s, i)) THEN SkipWs(s, i + 1) ELSE i

ParseFail == [ok |-> FALSE, val |-> JNull, pos |-> 0]
ParseOk(val, next) == [ok |-> TRUE, val |-> val, pos |-> next]

IsLit(s, i, lit) == Sub(s, i, i + Len(lit) - 1) = lit

RECURSIVE ScanDigits(_, _, _)
ScanDigits(s, i, acc) ==
    IF IsDigit(Char(s, i))
    THEN ScanDigits(s, i + 1, acc * 10 + DigitVal(Char(s, i)))
    ELSE [val |-> acc, pos |-> i]

\* the digits were read: a fraction or an exponent is outside the fragment
NumberEnd(s, r, neg) ==
    IF Char(s, r.pos) \in {".", "e", "E"} THEN ParseFail
    ELSE ParseOk(JNum(IF neg THEN -r.val ELSE r.val), r.pos)

\* the digits of a number start at j: a leading 0 stands alone
NumberDigits(s, j, neg) ==
    IF ~IsDigit(Char(s, j)) THEN ParseFail
    ELSE IF Char(s, j) = "0" THEN NumberEnd(s, [val |-> 0, pos |-> j + 1], neg)
    ELSE NumberEnd(s, ScanDigits(s, j, 0), neg)

ParseNumber(s, i) ==
    IF Char(s, i) = "-" THEN NumberDigits(s, i + 1, TRUE) ELSE NumberDigits(s, i, FALSE)

\* the least element of a non-empty set of positions
First(S) == CHOOSE j \in S : \A k \in S : j <= k
\* the positions from i on that end an unescaped run of string characters
StringStops(s, i) == {j \in i..Len(s) : Char(s, j) \in {"\"", "\\", "\t", "\r", "\n"}}
ClosingQuote(s, stops) ==
    IF stops = {} THEN 0
    ELSE IF Char(s, First(stops)) = "\"" THEN First(stops)
    ELSE 0
\* index of the closing quote of a string whose content starts at i, or 0
ScanString(s, i) == ClosingQuote(s, StringStops(s, i))

StringEnd(s, i, j) ==
    IF j = 0 THEN ParseFail ELSE ParseOk(JStr(Sub(s, i + 1, j - 1)), j + 1)
\* s[i] is the opening quote
ParseString(s, i) == StringEnd(s, i, ScanString(s, i + 1))

RECURSIVE ParseValue(_, _), ParseElems(_, _, _), ParseMembers(_, _, _)

\* after "[" and white space
ArrayBody(s, j) ==
    IF Char(s, j) = "]" THEN ParseOk(JArr(<<>>), j + 1) ELSE ParseElems(s, j, <<>>)
\* after "{" and white space
ObjectBody(s, j) ==
    IF Char(s, j) = "}" THEN ParseOk(JObj(<<>>), j + 1) ELSE ParseMembers(s, j, <<>>)

\* a value starts at i with character c
ValueAt(s, i, c) ==
    IF c = "" THEN ParseFail
    ELSE IF c = "\"" THEN ParseString(s, i)
    ELSE IF c = "[" THEN ArrayBody(s, SkipWs(s, i + 1))
    ELSE IF c = "{" THEN ObjectBody(s, SkipWs(s, i + 1))
    ELSE IF c = "t" THEN (IF IsLit(s, i, "true") THEN ParseOk(JBool(TRUE), i + 4) ELSE ParseFail)
    ELSE IF c = "f" THEN (IF IsLit(s, i, "false") THEN ParseOk(JBool(FALSE), i + 5) ELSE ParseFail)
    ELSE IF c = "n" THEN (IF IsLit(s, i, "null") THEN ParseOk(JNull, i + 4) ELSE ParseFail)
    ELSE ParseNumber(s, i)
ValueFrom(s, i) == ValueAt(s, i, Char(s, i))
ParseValue(s, i0) == ValueFrom(s, SkipWs(s, i0))

\* an element was read: "]" ends the array, "," announces another element
ElemsSep(s, j, xs) ==
    IF Char(s, j) = "]" THEN ParseOk(JArr(xs), j + 1)
    ELSE IF Char(s, j) = "," THEN ParseElems(s, j + 1, xs)
    ELSE ParseFail
ElemsNext(s, r, acc) ==
    IF ~r.ok THEN ParseFail ELSE ElemsSep(s, SkipWs(s, r.pos), Append(acc, r.val))
\* the elements of an array, after "[" or ","
ParseElems(s, i, acc) == ElemsNext(s, ParseValue(s, i), acc)

\* a member was read: "}" ends the object, "," announces another member
MembersSep(s, j, ps) ==
    IF Char(s, j) = "}" THEN ParseOk(JObj(ps), j + 1)
    ELSE IF Char(s, j) = "," THEN ParseMembers(s, j + 1, ps)
    ELSE ParseFail
MembersNext(s, k, r, acc) ==
    IF ~r.ok THEN ParseFail ELSE MembersSep(s, SkipWs(s, r.pos), ObjSet(acc, k, r.val))
MembersColon(s, k, c, acc) ==
    IF Char(s, c) # ":" THEN ParseFail ELSE MembersNext(s, k, ParseValue(s, c + 1), acc)
MembersKey(s, key, acc) ==
    IF ~key.ok THEN ParseFail ELSE MembersColon(s, key.val.v, SkipWs(s, key.pos), acc)
MembersFrom(s, i, acc) ==
    IF Char(s, i) # "\"" THEN ParseFail ELSE MembersKey(s, ParseString(s, i), acc)
\* the members of an object, after "{" or ","
ParseMembers(s, i0, acc) == MembersFrom(s, SkipWs(s, i0), acc)

ParseWhole(s, r) == IF r.ok /\ SkipWs(s, r.pos) = Len(s) + 1 THEN r ELSE ParseFail
\* JSON.parse(s): ok = FALSE stands for the SyntaxError it throws
JSONParse(s) == ParseWhole(s, ParseValue(s, 1))

RECURSIVE JSONStringify(_), StringifyElems(_, _), StringifyMembers(_, _)
JSONStringify(x) ==
    CASE x.t = "str"  -> "\"" \o x.v \o "\""
      [] x.t = "arr"  -> "[" \o StringifyElems(x.v, 1) \o "]"
      [] x.t = "obj"  -> "{" \o StringifyMembers(x.v, 1) \o "}"
      [] OTHER        -> ToStr(x)
StringifyElems(xs, i) ==
    IF i > Len(xs) THEN ""
    ELSE JSONStringify(xs[i]) \o (IF i < Len(xs) THEN "," ELSE "")
         \o StringifyElems(xs, i + 1)
StringifyMembers(ps, i) ==
    IF i > Len(ps) THEN ""
    ELSE "\"" \o ps[i].k \o "\":" \o JSONStringify(ps[i].v)
         \o (IF i < Len(ps) THEN "," ELSE "") \o StringifyMembers(ps, i + 1)

(***************************************************************************)
(* The guarded decoder and the SSE line parser  (utils/streaming.ts)       *)
(***************************************************************************)
DEFAULT_MAX_JSON_SIZE == 1048576
DEFAULT_MAX_JSON_DEPTH == 100

\* TLC keeps ASCII text only: "~" stands for a character of two UTF-8 bytes
\* (U+00E9) and "^" for one of three (U+20AC); each is one UTF-16 code unit
TwoByteChar == "~"
ThreeByteChar == "^"
\* bytes of one character in UTF-8 (what new Blob([s]).size counts)
Utf8Bytes(c) ==
    CASE c = TwoByteChar -> 2
      [] c = ThreeByteChar -> 3
      [] OTHER -> 1

\* the positions of the characters of s that take n bytes
CharsOfBytes(s, n) == {i \in 1..Len(s) : Utf8Bytes(Char(s, i)) = n}
\* new Blob([s]).size
BlobSize(s) == Len(s) + Cardinality(CharsOfBytes(s, 2)) + 2 * Cardinality(CharsOfBytes(s, 3))

\* a variant that counts characters (jsonString.length) instead of bytes
checkJsonLength(jsonString, maxSize) == Len(jsonString) <= maxSize
checkJsonSize(jsonString, maxSize) == BlobSize(jsonString) <= maxSize

RECURSIVE checkJsonDepth(_, _, _)
checkJsonDepth(obj, maxDepth, currentDepth) ==
    IF currentDepth > maxDepth THEN FALSE
    ELSE IF ~IsObjectLike(obj) THEN TRUE
    ELSE IF obj.t = "arr"
         THEN \A i \in 1..Len(obj.v) : checkJsonDepth(obj.v[i], maxDepth, currentDepth + 1)
         ELSE \A i \in 1..Len(obj.v) : checkJsonDepth(obj.v[i].v, maxDepth, currentDepth + 1)

\* the try block of safeJsonParse: JSON.parse, then the depth check
GuardedParse(parsed, maxDepth) ==
    IF ~parsed.ok THEN JNull
    ELSE IF ~checkJsonDepth(parsed.val, maxDepth, 0) THEN JNull
    ELSE parsed.val
\* the parsed value, or null
safeJsonParse(jsonString, maxSize, maxDepth) ==
    IF ~checkJsonSize(jsonString, maxSize) THEN JNull
    ELSE GuardedParse(JSONParse(jsonString), maxDepth)

\* String.prototype.trim
RECURSIVE TrimStart(_), TrimEnd(_)
TrimStart(s) == IF s # "" /\ IsWs(Char(s, 1)) THEN TrimStart(Sub(s, 2, Len(s))) ELSE s
TrimEnd(s) == IF s # "" /\ IsWs(Char(s, Len(s))) THEN TrimEnd(Sub(s, 1, Len(s) - 1)) ELSE s
Trim(s) == TrimEnd(TrimStart(s))

StartsWith(s, prefix) == Sub(s, 1, Len(prefix)) = prefix /\ Len(prefix) <= Len(s)

DefaultOptions ==
    [dataField |-> "data", parseJson |-> TRUE,
     maxJsonSize |-> DEFAULT_MAX_JSON_SIZE, maxJsonDepth |-> DEFAULT_MAX_JSON_DEPTH]

\* "If parsing returned null but content exists, return as string"
ParsedOrContent(parsed, content) ==
    IF IsNull(parsed) /\ content # "" THEN JStr(content) ELSE parsed
\* the line is a data line with this content
DataContent(content, opts) ==
    IF content = "[DONE]" THEN JNull
    ELSE IF opts.parseJson
         THEN ParsedOrContent(safeJsonParse(content, opts.maxJsonSize, opts.maxJsonDepth),
                              content)
         ELSE JStr(content)
TrimmedLine(trimmed, prefix, opts) ==
    IF trimmed = "" \/ StartsWith(trimmed, ":") THEN JNull
    ELSE IF ~StartsWith(trimmed, prefix) THEN JNull
    ELSE DataContent(Trim(Sub(trimmed, Len(prefix) + 1, Len(trimmed))), opts)
\* the parsed data, or null
parseSSELine(line, opts) == TrimmedLine(Trim(line), opts.dataField \o ":", opts)

\* String.prototype.split("\n")
RECURSIVE SplitFrom(_, _)
SplitAt(s, start, lfs) ==
    IF lfs = {} THEN <<Sub(s, start, Len(s))>>
    ELSE <<Sub(s, start, First(lfs) - 1)>> \o SplitFrom(s, First(lfs) + 1)
\* the pieces of s from position start on
SplitFrom(s, start) == SplitAt(s, start, {j \in start..Len(s) : Char(s, j) = "\n"})
Split(s) == SplitFrom(s, 1)

\* the values the for-loop of feed hands to onData
RECURSIVE DataOf(_, _, _)
DataIf(data) == IF ~IsNull(data) THEN <<data>> ELSE <<>>
DataOf(lines, opts, i) ==
    IF i > Len(lines) THEN <<>>
    ELSE DataIf(parseSSELine(lines[i], opts)) \o DataOf(lines, opts, i + 1)

\* lines.pop() ?? ''
PopLast(lines) == lines[Len(lines)]
\* a variant that parses the last piece too and retains nothing
FeedLinesAll(lines, opts) == [buffer |-> "", data |-> DataOf(lines, opts, 1)]
FeedLines(lines, opts) ==
    [buffer |-> PopLast(lines),
     data   |-> DataOf(SubSeq(lines, 1, Len(lines) - 1), opts, 1)]
\* feed without "buffer += chunk": the retained partial line is not prepended
feedWithoutCarry(buf, chunk, opts) == FeedLines(Split(chunk), opts)
\* createSSEParser.feed: the new buffer and the values passed to onData
feed(buf, chunk, opts) == FeedLines(Split(buf \o chunk), opts)

(***************************************************************************)
(* Canonical events (IStreamEvent) and what one adapter invocation does    *)
(***************************************************************************)
\* "null": the adapter returned null
NoEvent ==
    [type |-> "null", content |-> JUndef, tool_name |-> JUndef, input |-> JUndef,
     output |-> JUndef, message |-> JUndef]
Token(content)           == [NoEvent EXCEPT !.type = "llm_token", !.content = content]
ToolStart(name, input)   == [NoEvent EXCEPT !.type = "tool_start", !.tool_name = name, !.input = input]
ToolEnd(name, output)    == [NoEvent EXCEPT !.type = "tool_end", !.tool_name = name, !.output = output]
ErrorEvent(message)      == [NoEvent EXCEPT !.type = "error", !.message = message]

\* the invocation returned ev and left the closure's Map as st
Ret(ev, st) == [event |-> ev, state |-> st, thrown |-> FALSE]
\* the invocation raised a TypeError, leaving the closure's Map as st
Throw(st)   == [event |-> NoEvent, state |-> st, thrown |-> TRUE]

\* x === "s"
StrictEqStr(x, str) == x.t = "str" /\ x.v = str
\* a ?? b
Coalesce(a, b) == IF Nullish(a) THEN b ELSE a

\* Map key equality (SameValueZero): two parsed arrays or objects are never
\* the same object
SameKey(a, b) == a.t = b.t /\ ~IsObjectLike(a) /\ a.v = b.v

\* a Map: its entries in insertion order; 0 when the key is absent
RECURSIVE MapIndexFrom(_, _, _)
MapIndexFrom(m, key, i) ==
    IF i > Len(m) THEN 0
    ELSE IF SameKey(m[i].key, key) THEN i
    ELSE MapIndexFrom(m, key, i + 1)
MapIndex(m, key) == MapIndexFrom(m, key, 1)
MapPut(m, idx, entry) == IF idx = 0 THEN Append(m, entry) ELSE [m EXCEPT ![idx] = entry]
\* Map.prototype.set: an existing key keeps its place in the iteration order
MapSet(m, entry) == MapPut(m, MapIndex(m, entry.key), entry)
MapRemove(m, idx) == SubSeq(m, 1, idx - 1) \o SubSeq(m, idx + 1, Len(m))

\* ToNumber of a number, boolean or null
ToNum(x) == IF x.t = "num" THEN x.v ELSE IF x.t = "bool" /\ x.v THEN 1 ELSE 0
\* a + b: concatenation when either side is a string, an array or an object,
\* addition of numbers, booleans and null otherwise
JsPlus(a, b) ==
    IF a.t \in {"str", "arr", "obj"} \/ b.t \in {"str", "arr", "obj"}
    THEN JStr(ToStr(a) \o ToStr(b))
    ELSE JNum(ToNum(a) + ToNum(b))

\* a variant that assigns the fragment instead of appending it
OverwriteAt(m, idx, fragment) ==
    IF idx = 0 THEN m ELSE [m EXCEPT ![idx].arguments = fragment]
\* existing = toolCallsInProgress.get(index);
\* if (existing) existing.arguments += fragment
AppendAt(m, idx, fragment) ==
    IF idx = 0 THEN m ELSE [m EXCEPT ![idx].arguments = JsPlus(@, fragment)]
Accumulate(m, index, fragment) == AppendAt(m, MapIndex(m, index), fragment)

(***************************************************************************)
(* createOpenAIAdapter  (adapters/openai.ts)                               *)
(***************************************************************************)
\* const toolCallsInProgress = new Map()
createOpenAIAdapter == <<>>

\* "Handle finish reason": the for-loop returns at its first entry, so
\* toolCallsInProgress.clear() runs only when the Map is empty
OA_Finish(st, choice) ==
    IF StrictEqStr(Prop(choice, "finish_reason"), "tool_calls")
    THEN (IF Len(st) > 0 THEN Ret(ToolEnd(st[1].name, st[1].arguments), st)
          ELSE Ret(NoEvent, <<>>))
    ELSE Ret(NoEvent, st)

\* toolCallsInProgress.set(index, {id, name, arguments}); return tool_start
OA_StartCall(st, toolCall, index, fn) ==
    Ret(ToolStart(Prop(fn, "name"), Prop(fn, "arguments")),
        MapSet(st, [key       |-> index,
                    id        |-> Coalesce(Prop(toolCall, "id"), JStr("tool_" \o ToStr(index))),
                    name      |-> Prop(fn, "name"),
                    arguments |-> Coalesce(Prop(fn, "arguments"), JStr(""))]))

RECURSIVE OA_Loop(_, _, _, _)
\* one entry of delta.tool_calls, neither null nor undefined
OA_Entry(st, choice, items, i, toolCall, index, fn) ==
    IF Truthy(OptProp(fn, "name")) THEN OA_StartCall(st, toolCall, index, fn)
    ELSE IF Truthy(OptProp(fn, "arguments"))
         THEN OA_Loop(Accumulate(st, index, Prop(fn, "arguments")), choice, items, i + 1)
    ELSE OA_Loop(st, choice, items, i + 1)
\* for (const toolCall of delta.tool_calls), from entry i on; after the loop
\* events is empty and the finish reason is looked at
OA_Loop(st, choice, items, i) ==
    IF i > Len(items) THEN OA_Finish(st, choice)
    ELSE IF Nullish(items[i]) THEN Throw(st)
    ELSE OA_Entry(st, choice, items, i, items[i],
                  Coalesce(Prop(items[i], "index"), JNum(0)), Prop(items[i], "function"))

OA_ToolCalls(st, choice, toolCalls) ==
    IF ~Truthy(toolCalls) THEN OA_Finish(st, choice)
    ELSE IF ~Iterable(toolCalls) THEN Throw(st)
    ELSE OA_Loop(st, choice, Items(toolCalls), 1)
\* a variant that looks at the tool calls before the content
OA_DeltaToolsFirst(st, choice, delta) ==
    IF Truthy(OptProp(delta, "tool_calls"))
    THEN OA_ToolCalls(st, choice, OptProp(delta, "tool_calls"))
    ELSE IF Truthy(OptProp(delta, "content")) THEN Ret(Token(Prop(delta, "content")), st)
    ELSE OA_Finish(st, choice)
OA_Delta(st, choice, delta) ==
    IF Truthy(OptProp(delta, "content")) THEN Ret(Token(Prop(delta, "content")), st)
    ELSE OA_ToolCalls(st, choice, OptProp(delta, "tool_calls"))
OA_Choice(st, choice) ==
    IF ~Truthy(choice) THEN Ret(NoEvent, st) ELSE OA_Delta(st, choice, Prop(choice, "delta"))
\* the closure createOpenAIAdapter returns, on its Map st
OpenAIAdapter(st, rawEvent) ==
    IF ~IsObjectLike(rawEvent) THEN Ret(NoEvent, st)
    ELSE OA_Choice(st, OptFirst(Prop(rawEvent, "choices")))

openAITextContent(st, content) ==
    IF Truthy(content) THEN Ret(Token(content), st) ELSE Ret(NoEvent, st)
openAITextAdapter(st, rawEvent) ==
    IF ~IsObjectLike(rawEvent) THEN Ret(NoEvent, st)
    ELSE openAITextContent(st,
            OptProp(OptProp(OptFirst(Prop(rawEvent, "choices")), "delta"), "content"))

(***************************************************************************)
(* createAnthropicAdapter  (adapters/anthropic.ts)                         *)
(***************************************************************************)
\* const toolUseInProgress = new Map()
createAnthropicAdapter == <<>>

\* case 'content_block_start'
AN_StartBlock(st, index, block) ==
    Ret(ToolStart(Coalesce(Prop(block, "name"), JStr("unknown_tool")), JUndef),
        MapSet(st, [key   |-> index,
                    id    |-> Coalesce(Prop(block, "id"), JStr("tool_" \o ToStr(index))),
                    name  |-> Coalesce(Prop(block, "name"), JStr("unknown_tool")),
                    input |-> JStr("")]))
AN_Start(st, event, block) ==
    IF StrictEqStr(OptProp(block, "type"), "tool_use")
    THEN AN_StartBlock(st, Coalesce(Prop(event, "index"), JNum(0)), block)
    ELSE Ret(NoEvent, st)

\* existing = toolUseInProgress.get(index); if (existing) existing.input += partial_json
AN_AppendAt(st, idx, fragment) ==
    IF idx = 0 THEN st ELSE [st EXCEPT ![idx].input = JsPlus(@, fragment)]
AN_Accumulate(st, index, fragment) == AN_AppendAt(st, MapIndex(st, index), fragment)
\* case 'content_block_delta'
AN_Delta(st, event, delta) ==
    IF StrictEqStr(OptProp(delta, "type"), "text_delta") /\ Truthy(Prop(delta, "text"))
    THEN Ret(Token(Prop(delta, "text")), st)
    ELSE IF StrictEqStr(OptProp(delta, "type"), "input_json_delta")
            /\ Truthy(Prop(delta, "partial_json"))
    THEN Ret(NoEvent, AN_Accumulate(st, Coalesce(Prop(event, "index"), JNum(0)),
                                    Prop(delta, "partial_json")))
    ELSE Ret(NoEvent, st)

\* a variant that leaves the slot in the Map
AN_StopKeeps(st, idx) ==
    IF idx = 0 THEN Ret(NoEvent, st)
    ELSE Ret(ToolEnd(st[idx].name, st[idx].input), st)
\* case 'content_block_stop'
AN_StopAt(st, idx) ==
    IF idx = 0 THEN Ret(NoEvent, st)
    ELSE Ret(ToolEnd(st[idx].name, st[idx].input), MapRemove(st, idx))
AN_Stop(st, event) == AN_StopAt(st, MapIndex(st, Coalesce(Prop(event, "index"), JNum(0))))

\* case 'error'
AN_Error(st, event) ==
    Ret(ErrorEvent(Coalesce(OptProp(Prop(event, "error"), "message"),
                            JStr("Unknown Anthropic API error"))), st)

\* switch (event.type)
AN_Switch(st, event, type) ==
    IF StrictEqStr(type, "content_block_start") THEN AN_Start(st, event, Prop(event, "content_block"))
    ELSE IF StrictEqStr(type, "content_block_delta") THEN AN_Delta(st, event, Prop(event, "delta"))
    ELSE IF StrictEqStr(type, "content_block_stop") THEN AN_Stop(st, event)
    ELSE IF StrictEqStr(type, "error") THEN AN_Error(st, event)
    ELSE Ret(NoEvent, st)
\* the closure createAnthropicAdapter returns, on its Map st
AnthropicAdapter(st, rawEvent) ==
    IF ~IsObjectLike(rawEvent) THEN Ret(NoEvent, st)
    ELSE AN_Switch(st, rawEvent, Prop(rawEvent, "type"))

anthropicTextAdapter(st, rawEvent) ==
    IF ~IsObjectLike(rawEvent) THEN Ret(NoEvent, st)
    ELSE IF StrictEqStr(Prop(rawEvent, "type"), "content_block_delta")
            /\ Truthy(OptProp(Prop(rawEvent, "delta"), "text"))
    THEN Ret(Token(Prop(Prop(rawEvent, "delta"), "text")), st)
    ELSE IF StrictEqStr(Prop(rawEvent, "type"), "error")
    THEN Ret(ErrorEvent(Coalesce(OptProp(Prop(rawEvent, "error"), "message"),
                                 JStr("Unknown error"))), st)
    ELSE Ret(NoEvent, st)

(***************************************************************************)
(* createGeminiAdapter  (the Gemini adapter module)                        *)
(***************************************************************************)
\* the adapter keeps no state
createGeminiAdapter == <<>>

GM_Call(st, call) ==
    Ret(ToolStart(Coalesce(Prop(call, "name"), JStr("unknown_function")),
                  JStr(JSONStringify(Coalesce(Prop(call, "args"), JObj(<<>>))))), st)
GM_Response(st, resp) ==
    Ret(ToolEnd(Coalesce(Prop(resp, "name"), JStr("unknown_function")),
                JStr(JSONStringify(Coalesce(Prop(resp, "response"), JObj(<<>>))))), st)

RECURSIVE GM_Loop(_, _, _)
\* a variant that looks at the text of the parts only
GM_PartTextOnly(st, parts, i, part) ==
    IF Truthy(Prop(part, "text")) THEN Ret(Token(Prop(part, "text")), st)
    ELSE GM_Loop(st, parts, i + 1)
\* one part, neither null nor undefined
GM_Part(st, parts, i, part) ==
    IF Truthy(Prop(part, "text")) THEN Ret(Token(Prop(part, "text")), st)
    ELSE IF Truthy(Prop(part, "functionCall")) THEN GM_Call(st, Prop(part, "functionCall"))
    ELSE IF Truthy(Prop(part, "functionResponse"))
         THEN GM_Response(st, Prop(part, "functionResponse"))
    ELSE GM_Loop(st, parts, i + 1)
\* for (const part of candidate.content.parts), from part i on
GM_Loop(st, parts, i) ==
    IF i > Len(parts) THEN Ret(NoEvent, st)
    ELSE IF Nullish(parts[i]) THEN Throw(st)
    ELSE GM_Part(st, parts, i, parts[i])
GM_Parts(st, parts) ==
    IF ~Truthy(parts) THEN Ret(NoEvent, st)
    ELSE IF ~Iterable(parts) THEN Throw(st)
    ELSE GM_Loop(st, Items(parts), 1)
\* the closure createGeminiAdapter returns
GeminiAdapter(st, rawEvent) ==
    IF ~IsObjectLike(rawEvent) THEN Ret(NoEvent, st)
    ELSE GM_Parts(st, OptProp(OptProp(OptFirst(Prop(rawEvent, "candidates")),
                                      "content"), "parts"))

geminiTextContent(st, txt) ==
    IF Truthy(txt) THEN Ret(Token(txt), st) ELSE Ret(NoEvent, st)
geminiTextAdapter(st, rawEvent) ==
    IF ~IsObjectLike(rawEvent) THEN Ret(NoEvent, st)
    ELSE geminiTextContent(st,
            OptProp(OptFirst(OptProp(OptProp(OptFirst(Prop(rawEvent, "candidates")),
                                             "content"), "parts")), "text"))

\* a factory call: the closure state of the new instance
CreateAdapter(k) ==
    CASE k = "openai"    -> createOpenAIAdapter
      [] k = "anthropic" -> createAnthropicAdapter
      [] k = "gemini"    -> createGeminiAdapter
      [] OTHER           -> <<>>

\* the adapter of each kind, as a step on its closure state
Adapt(k, st, rawEvent) ==
    CASE k = "openai"        -> OpenAIAdapter(st, rawEvent)
      [] k = "anthropic"     -> AnthropicAdapter(st, rawEvent)
      [] k = "gemini"        -> GeminiAdapter(st, rawEvent)
      [] k = "openaiText"    -> openAITextAdapter(st, rawEvent)
      [] k = "anthropicText" -> anthropicTextAdapter(st, rawEvent)
      [] OTHER               -> geminiTextAdapter(st, rawEvent)

(***************************************************************************)
(* Idle values of the variables a specification does not use               *)
(***************************************************************************)
\* fetch has not resolved
NoResponse == [ok |-> FALSE, status |-> 0, errorText |-> "", hasBody |-> FALSE]
ParserIdle ==
    /\ text = "" /\ pos = 0 /\ options = DefaultOptions
    /\ buffer = "" /\ delivered = <<>> /\ cutMidLine = FALSE
AdapterIdle ==
    /\ kind = "none" /\ toolState = <<>> /\ fed = <<>> /\ emitted = <<>>
    /\ threw = FALSE
StreamIdle ==
    /\ pc = "idle" /\ aborted = FALSE /\ abortedAt = "none"
    /\ ending = "none" /\ calls = <<>> /\ response = NoResponse
HookIdle ==
    /\ configMode = "none" /\ turn = 0 /\ stateAtStart = <<>>
\* the call has not returned / returned val
Pending == [done |-> FALSE, val |-> JNull]
Returns(val) == [done |-> TRUE, val |-> val]
DecoderIdle ==
    /\ arg = "none" /\ result = Pending
ChatIdle ==
    /\ messages = <<>> /\ isStreaming = FALSE /\ accumulatedContentRef = ""
    /\ contentSegmentsRef = <<>> /\ currentTextSegmentRef = ""
    /\ abortControllerRef = FALSE /\ maxMessages = 0 /\ idsIssued = 0
    /\ historyBefore = <<>> /\ untrimmed = <<>> /\ handled = <<>>
    /\ disturbed = FALSE /\ latePending = <<>>

(***************************************************************************)
(* SpecParser: one createSSEParser instance fed a text in arbitrary chunks *)
(***************************************************************************)
MaxLines == 2
SmallMaxJsonSize == 3
SmallMaxJsonDepth == 1

ParserLines ==
    { "data: 1", "data: [[1]]", "data: {\"a\":[2]}", "data: hello", ": ping", "",
      "data: [DONE]", "event: x", "data: \"~\"", "data:[]\r" }

RECURSIVE TextsOf(_)
\* the texts of at most n complete lines
TextsOf(n) ==
    IF n = 0 THEN {""}
    ELSE TextsOf(n - 1) \cup {t \o l \o "\n" : t \in TextsOf(n - 1), l \in ParserLines}

\* complete lines, followed or not by a line that no line feed terminates
InputTexts == {t \o tail : t \in TextsOf(MaxLines), tail \in {"", "data: [3]"}}

ParserOptionSets ==
    { DefaultOptions,
      [DefaultOptions EXCEPT !.maxJsonSize = SmallMaxJsonSize],
      [DefaultOptions EXCEPT !.maxJsonDepth = SmallMaxJsonDepth] }

ParserInit ==
    /\ text \in InputTexts
    /\ options \in ParserOptionSets
    /\ pos = 0 /\ buffer = "" /\ delivered = <<>> /\ cutMidLine = FALSE
    /\ AdapterIdle /\ StreamIdle /\ HookIdle /\ DecoderIdle /\ ChatIdle

\* parser.feed(chunk) with the next n characters of the text
ParserFed(r, n) ==
    /\ buffer' = r.buffer
    /\ delivered' = delivered \o r.data
    /\ pos' = pos + n
    /\ cutMidLine' = (cutMidLine \/ r.buffer # "")
    /\ UNCHANGED <<text, options, adapterVars, streamVars, hookVars, decoderVars, chatVars>>
ParserFeed ==
    \E n \in 1..(Len(text) - pos) :
        ParserFed(feed(buffer, Sub(text, pos + 1, pos + n), options), n)

ParserNext == ParserFeed
SpecParser == ParserInit /\ [][ParserNext]_vars

\* C3: whatever the chunking, the values passed to onData so far are those of
\* feeding the same text as a single chunk to a fresh parser, in the same order
C3_ChunkingInvariant ==
    delivered = feed("", Sub(text, 1, pos), options).data

\* the whole text was fed, some cut fell inside a line, and data was delivered
C3_Witness ==
    /\ pos = Len(text) /\ cutMidLine /\ Len(delivered) >= 2
    /\ text # ""

\* the lines of the text that a line feed has terminated so far
LinesDone == SubSeq(Split(Sub(text, 1, pos)), 1, Len(Split(Sub(text, 1, pos))) - 1)

IsDataLine(line, opts) == StartsWith(Trim(line), opts.dataField \o ":")
PayloadOf(line, opts) ==
    Trim(Sub(Trim(line), Len(opts.dataField) + 2, Len(Trim(line))))
DepthExceeded(parsed, maxDepth) ==
    parsed.ok /\ ~checkJsonDepth(parsed.val, maxDepth, 0)
\* the payload is larger than maxJsonSize, or decodes to a value that the
\* depth check refuses
OverLimit(content, opts) ==
    \/ BlobSize(content) > opts.maxJsonSize
    \/ DepthExceeded(JSONParse(content), opts.maxJsonDepth)

\* C10: parseSSELine returns null for every data line whose payload exceeds
\* maxJsonSize or maxJsonDepth (the payload is handed on in no form)
C10_OverLimitIsNull ==
    \A i \in 1..Len(LinesDone) :
        (IsDataLine(LinesDone[i], options) /\ OverLimit(PayloadOf(LinesDone[i], options), options))
            => IsNull(parseSSELine(LinesDone[i], options))

(***************************************************************************)
(* Frames: the payloads of data lines, described by what they carry        *)
(***************************************************************************)
Frame(role, slot, name, frag) ==
    [role |-> role, slot |-> slot, name |-> name, frag |-> frag]
Quote(str) == "\"" \o str \o "\""

\* one entry of delta.tool_calls
OpenAIToolCall(f) ==
    CASE f.role = "name" ->
           "{\"index\":" \o NatStr(f.slot) \o ",\"id\":\"c" \o NatStr(f.slot)
           \o "\",\"function\":{\"name\":" \o Quote(f.name)
           \o ",\"arguments\":" \o Quote(f.frag) \o "}}"
      [] f.role = "bareName" -> "{\"function\":{\"name\":" \o Quote(f.name) \o "}}"
      [] f.role = "frag" ->
           "{\"index\":" \o NatStr(f.slot) \o ",\"function\":{\"arguments\":"
           \o Quote(f.frag) \o "}}"
      [] OTHER -> "{\"function\":{\"arguments\":" \o Quote(f.frag) \o "}}"
\* a chat.completion.chunk
OpenAIPayload(f) ==
    CASE f.role = "finish" -> "{\"choices\":[{\"delta\":{},\"finish_reason\":\"tool_calls\"}]}"
      [] f.role = "text" -> "{\"choices\":[{\"delta\":{\"content\":" \o Quote(f.frag) \o "}}]}"
      [] OTHER -> "{\"choices\":[{\"delta\":{\"tool_calls\":[" \o OpenAIToolCall(f) \o "]}}]}"
\* a Messages API stream event
AnthropicPayload(f) ==
    CASE f.role = "name" ->
           "{\"type\":\"content_block_start\",\"index\":" \o NatStr(f.slot)
           \o ",\"content_block\":{\"type\":\"tool_use\",\"id\":\"t" \o NatStr(f.slot)
           \o "\",\"name\":" \o Quote(f.name) \o "}}"
      [] f.role = "frag" ->
           "{\"type\":\"content_block_delta\",\"index\":" \o NatStr(f.slot)
           \o ",\"delta\":{\"type\":\"input_json_delta\",\"partial_json\":"
           \o Quote(f.frag) \o "}}"
      [] f.role = "finish" ->
           "{\"type\":\"content_block_stop\",\"index\":" \o NatStr(f.slot) \o "}"
      [] OTHER ->
           "{\"type\":\"content_block_delta\",\"index\":0,\"delta\":{\"type\":"
           \o "\"text_delta\",\"text\":" \o Quote(f.frag) \o "}}"
Payload(k, f) ==
    IF f.role = "raw" THEN f.frag
    ELSE IF k = "anthropic" THEN AnthropicPayload(f)
    ELSE OpenAIPayload(f)

OpenAIFrames ==
    { Frame("name", 0, "search", ""), Frame("name", 0, "search", "["),
      Frame("name", 1, "calc", ""), Frame("bareName", 0, "search", ""),
      Frame("frag", 0, "", "1,"), Frame("bareFrag", 0, "", "2]"),
      Frame("frag", 1, "", "x"),
      Frame("finish", 0, "", ""), Frame("text", 0, "", "Hi") }
AnthropicFrames ==
    { Frame("name", 0, "search", ""), Frame("name", 1, "calc", ""),
      Frame("frag", 0, "", "1,"), Frame("frag", 0, "", "2]"), Frame("frag", 1, "", "x"),
      Frame("finish", 0, "", ""), Frame("finish", 1, "", ""),
      Frame("text", 0, "", "Hi") }
FramesOf(k) == IF k = "anthropic" THEN AnthropicFrames ELSE OpenAIFrames
\* the values JSON.parse gives for the payloads of the frames
Decoded ==
    [k \in {"openai", "anthropic"} |->
        [f \in FramesOf(k) |-> JSONParse(Payload(k, f)).val]]
\* the value the parser hands to the adapter for the frame
Decode(k, f) == Decoded[k][f]

(***************************************************************************)
(* SpecAdapter: two adapter instances from two calls of one factory,       *)
(* invoked in any interleaving                                             *)
(***************************************************************************)
MaxFrames == 4
Instances == {1, 2}

\* a variant in which the Map is module-level: every instance uses one Map
SharedCell(i) == 1
\* the Map is created inside the factory call: instance i owns Map i
StateCell(i) == i

FedCount == Len(fed[1]) + Len(fed[2])

AdapterInit ==
    /\ kind \in {"openai", "anthropic"}
    /\ toolState = <<CreateAdapter(kind), CreateAdapter(kind)>>
    /\ fed = <<<<>>, <<>>>> /\ emitted = <<<<>>, <<>>>> /\ threw = FALSE
    /\ ParserIdle /\ StreamIdle /\ HookIdle /\ DecoderIdle /\ ChatIdle

\* instance i was invoked with frame f; r is what the invocation did
AdapterInvoked(i, f, r) ==
    /\ toolState' = [toolState EXCEPT ![StateCell(i)] = r.state]
    /\ fed' = [fed EXCEPT ![i] = Append(@, f)]
    /\ emitted' = [emitted EXCEPT ![i] = Append(@, r.event)]
    /\ threw' = (threw \/ r.thrown)
    /\ UNCHANGED <<kind, parserVars, streamVars, hookVars, decoderVars, chatVars>>
AdapterInvoke ==
    /\ FedCount < MaxFrames
    /\ \E i \in Instances, f \in FramesOf(kind) :
          AdapterInvoked(i, f, Adapt(kind, toolState[StateCell(i)], Decode(kind, f)))

AdapterNext == AdapterInvoke
SpecAdapter == AdapterInit /\ [][AdapterNext]_vars

RECURSIVE RunFrom(_, _, _, _)
RunStep(k, frames, i, r) == <<r.event>> \o RunFrom(k, r.state, frames, i + 1)
RunFrom(k, st, frames, i) ==
    IF i > Len(frames) THEN <<>>
    ELSE RunStep(k, frames, i, Adapt(k, st, Decode(k, frames[i])))
\* what a fresh instance returns, invocation by invocation, for the frames
RunAlone(k, frames) == RunFrom(k, <<>>, frames, 1)

NameRoles == {"name", "bareName"}
FragRoles == {"frag", "bareFrag"}
\* a name frame for slot 0, then fragment frames for slot 0, then the finish frame
IsToolSequence(fr) ==
    /\ Len(fr) >= 2
    /\ fr[1].role \in NameRoles /\ fr[1].slot = 0
    /\ fr[Len(fr)].role = "finish"
    /\ \A j \in 2..(Len(fr) - 1) : fr[j].role \in FragRoles /\ fr[j].slot = 0

RECURSIVE SlotFragments(_, _, _, _)
\* the argument fragments that frames p..n carry for the slot, in arrival
\* order, the arguments of the name frame p being the first of them
SlotFragments(fr, slot, p, n) ==
    IF p > n THEN ""
    ELSE (IF fr[p].role \in (NameRoles \cup FragRoles) /\ fr[p].slot = slot
          THEN fr[p].frag ELSE "")
         \o SlotFragments(fr, slot, p + 1, n)

\* C4: an OpenAI instance fed exactly a name frame, k >= 0 fragment frames for
\* slot 0 and a finish frame returns ToolStart on the name frame, null on every
\* fragment frame and, on the finish frame, ToolEnd whose output is the
\* concatenation of the fragments in arrival order
C4_ToolCallSequence ==
    \A i \in Instances :
        (kind = "openai" /\ IsToolSequence(fed[i])) =>
            /\ emitted[i][1].type = "tool_start"
            /\ emitted[i][1].tool_name = JStr(fed[i][1].name)
            /\ \A j \in 2..(Len(fed[i]) - 1) : emitted[i][j] = NoEvent
            /\ emitted[i][Len(fed[i])] =
                  ToolEnd(JStr(fed[i][1].name),
                          JStr(SlotFragments(fed[i], 0, 1, Len(fed[i]))))

\* a name frame, two different fragments and the finish frame were handled
C4_Witness ==
    \E i \in Instances :
        /\ kind = "openai" /\ IsToolSequence(fed[i]) /\ Len(fed[i]) = 4
        /\ fed[i][2].frag # fed[i][3].frag
        /\ emitted[i][4].type = "tool_end"
        /\ emitted[i][4].output = JStr(fed[i][2].frag \o fed[i][3].frag)

\* frame p started a tool call that is still in progress when frame n arrives:
\* no finish frame and no new name frame for its slot came in between
InProgressAt(fr, p, n) ==
    /\ fr[p].role \in NameRoles
    /\ \A q \in (p + 1)..(n - 1) :
          /\ fr[q].role # "finish"
          /\ ~(fr[q].role \in NameRoles /\ fr[q].slot = fr[p].slot)

\* C5: when the finish frame reaches an OpenAI instance, every tool call in
\* progress gets its ToolEnd, with its name and its concatenated arguments
C5_EverySlotEnds ==
    \A i \in Instances :
        (kind = "openai" /\ Len(fed[i]) >= 1 /\ fed[i][Len(fed[i])].role = "finish") =>
            \A p \in 1..(Len(fed[i]) - 1) :
                InProgressAt(fed[i], p, Len(fed[i])) =>
                    \E j \in (p + 1)..Len(fed[i]) :
                        emitted[i][j] =
                            ToolEnd(JStr(fed[i][p].name),
                                    JStr(SlotFragments(fed[i], fed[i][p].slot, p, Len(fed[i]))))

\* C6: whatever the interleaving, each instance returns exactly what a fresh
\* instance returns when it is fed the same frames alone
C6_InstancesIndependent ==
    \A i \in Instances : emitted[i] = RunAlone(kind, fed[i])

\* both instances hold a tool call in progress, each its own
C6_Witness ==
    /\ Len(fed[1]) >= 2 /\ Len(fed[2]) >= 2
    /\ toolState[1] # <<>> /\ toolState[2] # <<>>
    /\ toolState[1] # toolState[2]

(***************************************************************************)
(* SpecShapes: one instance of any of the six adapters, invoked with       *)
(* decoded values of any shape                                             *)
(***************************************************************************)
MaxShapeFrames == 2
AdapterKinds ==
    {"openai", "anthropic", "gemini", "openaiText", "anthropicText", "geminiText"}
\* one frame of the tool_calls entries, the content and the finish reason given
ToolCallsFrame(entries, more) ==
    "{\"choices\":[{\"delta\":{\"tool_calls\":[" \o entries \o "]" \o more \o "}]}"
NamedEntry(index, name, arguments) ==
    "{\"index\":" \o NatStr(index) \o ",\"function\":{\"name\":" \o Quote(name)
    \o ",\"arguments\":" \o Quote(arguments) \o "}}"
FragmentEntry(index, arguments) ==
    "{\"index\":" \o NatStr(index) \o ",\"function\":{\"arguments\":"
    \o Quote(arguments) \o "}}"
\* a call "z" starts at index 0
StartZeroFrame == ToolCallsFrame(NamedEntry(0, "z", "0"), "}")
\* a fragment for index 0, the start of "a" at index 1, the start of "b" at
\* index 2 and one more fragment for index 0
MultiStartFrame ==
    ToolCallsFrame(FragmentEntry(0, "x") \o "," \o NamedEntry(1, "a", "1") \o ","
                   \o NamedEntry(2, "b", "2") \o "," \o FragmentEntry(0, "y"), "}")
\* content together with the start of "c" at index 3 and the finish reason
ContentFirstFrame ==
    ToolCallsFrame(NamedEntry(3, "c", "3"),
                   ",\"content\":\"Hi\"},\"finish_reason\":\"tool_calls\"")
MultiEntryPayloads == {StartZeroFrame, MultiStartFrame, ContentFirstFrame}

ShapePayloads ==
    MultiEntryPayloads \cup
    { "5", "\"hi\"", "null", "true", "[1]", "{}",
      "{\"choices\":5}", "{\"choices\":[null]}", "{\"choices\":\"ab\"}",
      "{\"choices\":[{\"delta\":{\"tool_calls\":5}}]}",
      "{\"choices\":[{\"delta\":{\"tool_calls\":[null]}}]}",
      "{\"choices\":[{\"delta\":{\"tool_calls\":\"ab\"}}]}",
      "{\"choices\":[{\"delta\":{\"tool_calls\":[]},\"finish_reason\":\"tool_calls\"}]}",
      "{\"candidates\":5}", "{\"candidates\":[null]}",
      "{\"candidates\":[{\"content\":{\"parts\":5}}]}",
      "{\"candidates\":[{\"content\":{\"parts\":[null]}}]}",
      "{\"candidates\":[{\"content\":{\"parts\":[{\"text\":\"Hi\"}]}}]}",
      "{\"type\":\"content_block_start\",\"content_block\":null}",
      "{\"type\":\"content_block_delta\",\"delta\":5}",
      "{\"type\":\"error\",\"error\":null}",
      "{\"type\":\"error\",\"error\":{\"message\":\"boom\"}}",
      "{\"type\":\"content_block_delta\",\"delta\":{\"type\":\"text_delta\",\"text\":\"Hi\"}}",
      "{\"choices\":[{\"delta\":{\"content\":\"Hi\"}}]}" }

\* the values JSON.parse gives for the payloads
ShapeDecoded == [p \in ShapePayloads |-> JSONParse(p).val]

ShapesInit ==
    /\ kind \in AdapterKinds
    /\ toolState = <<CreateAdapter(kind)>>
    /\ fed = <<<<>>>> /\ emitted = <<<<>>>> /\ threw = FALSE
    /\ ParserIdle /\ StreamIdle /\ HookIdle /\ DecoderIdle /\ ChatIdle

ShapeInvoke ==
    /\ Len(fed[1]) < MaxShapeFrames
    /\ \E p \in ShapePayloads :
          AdapterInvoked(1, Frame("raw", 0, "", p),
                         Adapt(kind, toolState[1], ShapeDecoded[p]))

ShapesNext == ShapeInvoke
SpecShapes == ShapesInit /\ [][ShapesNext]_vars

\* C8: no adapter invocation throws, whatever the decoded value
C8_AdaptersNeverThrow == ~threw


(***************************************************************************)
(* streamSSE  (utils/streaming.ts)                                         *)
(***************************************************************************)
OnEvent(ev)  == [cb |-> "onEvent", event |-> ev, error |-> ""]
OnComplete   == [cb |-> "onComplete", event |-> NoEvent, error |-> ""]
OnError(err) == [cb |-> "onError", event |-> NoEvent, error |-> err]

\* the outer catch: onError(error)
OuterCatch(cs, err) == Append(cs, OnError(err))
\* a variant of the inner catch that does not rethrow
InnerCatchSwallows(cs, err) ==
    IF err = "AbortError" THEN Append(cs, OnComplete) ELSE cs
\* the catch around the read loop: onComplete and return on AbortError, any
\* other error is thrown on to the outer catch
InnerCatch(cs, err) ==
    IF err = "AbortError" THEN Append(cs, OnComplete) ELSE OuterCatch(cs, err)
\* a variant that reports the end of the body as an error
DoneAsError(cs) == Append(cs, OnError("done"))
\* if (done) { onComplete(); break }
ReadIsDone(cs) == Append(cs, OnComplete)

\* if (event) onEvent(event)
Forward(cs, ev) == IF ev.type = "null" THEN cs ELSE Append(cs, OnEvent(ev))

RECURSIVE DriveFrom(_, _, _, _, _)
DriveStep(k, data, i, cs, r) ==
    IF r.thrown THEN [state |-> r.state, calls |-> cs, thrown |-> TRUE, seen |-> i]
    ELSE DriveFrom(k, r.state, data, i + 1, Forward(cs, r.event))
\* onData for data[i], data[i+1], ...: the adapter, then onEvent; an
\* exception of the adapter leaves parser.feed at once
DriveFrom(k, st, data, i, cs) ==
    IF i > Len(data)
    THEN [state |-> st, calls |-> cs, thrown |-> FALSE, seen |-> Len(data)]
    ELSE DriveStep(k, data, i, cs, Adapt(k, st, data[i]))

(***************************************************************************)
(* SpecStream: one streamSSE call with the OpenAI adapter; the body        *)
(* arrives in chunks, and the signal may fire at any await                 *)
(***************************************************************************)
ChunkSmall == 17
ChunkLarge == 60

DataLine(payload) == "data: " \o payload \o "\n"
TextLine(str) == DataLine(OpenAIPayload(Frame("text", 0, "", str)))
HelloBody == TextLine("Hel") \o "\n" \o TextLine("lo") \o "\n" \o "data: [DONE]\n\n"
MalformedBody == DataLine("{oops") \o TextLine("Hi")
UnknownShapeBody == DataLine("{\"foo\":1}") \o TextLine("Hi")
BadToolCallsBody == DataLine("{\"choices\":[{\"delta\":{\"tool_calls\":5}}]}") \o TextLine("Hi")
ToolBody ==
    DataLine(OpenAIPayload(Frame("name", 0, "search", "")))
    \o DataLine(OpenAIPayload(Frame("frag", 0, "", "1,")))
    \o DataLine(OpenAIPayload(Frame("finish", 0, "", "")))
UnterminatedBody == TextLine("Hi") \o "data: " \o OpenAIPayload(Frame("text", 0, "", "lost"))
\* bodies in which a line that is malformed or of an unrecognized shape is
\* followed by the well-formed line of the token "Hi"
BadLineBodies == {MalformedBody, UnknownShapeBody, BadToolCallsBody}
StreamBodies == BadLineBodies \cup {"", HelloBody, ToolBody, UnterminatedBody}

\* the statuses and bodies of the responses that are not ok
ErrorStatuses == {404, 500}
ErrorTexts == {"", "quota exceeded"}
\* a variant that leaves the body of the response out
HttpStatusOnly(status, errorText) == "HTTP " \o ToString(status)
\* new Error(`HTTP ${response.status}: ${errorText}`).message
HttpError(status, errorText) == "HTTP " \o ToString(status) \o ": " \o errorText

StreamInit ==
    /\ text \in StreamBodies
    /\ pos = 0 /\ options = DefaultOptions /\ buffer = "" /\ delivered = <<>>
    /\ cutMidLine = FALSE
    /\ kind = "openai" /\ toolState = <<CreateAdapter("openai")>>
    /\ fed = <<>> /\ emitted = <<>> /\ threw = FALSE
    /\ pc = "fetch" /\ aborted = FALSE /\ abortedAt = "none" /\ ending = "none"
    /\ calls = <<>> /\ response = NoResponse
    /\ HookIdle /\ DecoderIdle /\ ChatIdle

\* the call returns after the callbacks cs, for the reason why
StreamEnds(cs, why) ==
    /\ calls' = cs /\ pc' = "done" /\ ending' = why
    /\ UNCHANGED <<parserVars, adapterVars, aborted, abortedAt, response, hookVars, decoderVars, chatVars>>

\* controller.abort() while the call is at an await
Abort ==
    /\ pc \in {"fetch", "text", "read"} /\ ~aborted
    /\ aborted' = TRUE /\ abortedAt' = pc
    /\ UNCHANGED <<parserVars, adapterVars, pc, ending, calls, response, hookVars, decoderVars, chatVars>>

\* await fetch(...) resolves with an ok response that has a body
FetchOk ==
    /\ pc = "fetch" /\ ~aborted
    /\ pc' = "read"
    /\ response' = [ok |-> TRUE, status |-> 200, errorText |-> "", hasBody |-> TRUE]
    /\ UNCHANGED <<parserVars, adapterVars, aborted, abortedAt, ending, calls, hookVars, decoderVars, chatVars>>
\* await fetch(...) resolves with !response.ok
FetchNotOk ==
    /\ pc = "fetch" /\ ~aborted
    /\ pc' = "text"
    /\ \E status \in ErrorStatuses, errorText \in ErrorTexts :
          response' = [ok |-> FALSE, status |-> status, errorText |-> errorText,
                       hasBody |-> TRUE]
    /\ UNCHANGED <<parserVars, adapterVars, aborted, abortedAt, ending, calls, hookVars, decoderVars, chatVars>>
\* await fetch(...) resolves with an ok response without body
FetchNullBody ==
    /\ pc = "fetch" /\ ~aborted
    /\ StreamEnds(OuterCatch(calls, "Response body is null"), "nullBody")
\* await fetch(...) rejects: AbortError once the signal fired, a network
\* error otherwise
FetchReject ==
    /\ pc = "fetch"
    /\ StreamEnds(OuterCatch(calls, IF aborted THEN "AbortError" ELSE "TypeError"),
                  IF aborted THEN "aborted" ELSE "requestFailed")
\* await response.text() resolves: throw new Error(`HTTP ${status}: ${text}`)
TextResolve ==
    /\ pc = "text" /\ ~aborted
    /\ StreamEnds(OuterCatch(calls, HttpError(response.status, response.errorText)),
                  "httpError")
\* await response.text() rejects
TextReject ==
    /\ pc = "text"
    /\ StreamEnds(OuterCatch(calls, IF aborted THEN "AbortError" ELSE "TypeError"),
                  IF aborted THEN "aborted" ELSE "readFailed")

\* parser.feed(chunk) for the next n characters: r is what the parser did,
\* d what the onData calls did
StreamFed(n, r, d) ==
    /\ pos' = pos + n
    /\ buffer' = r.buffer
    /\ delivered' = delivered \o SubSeq(r.data, 1, d.seen)
    /\ cutMidLine' = (cutMidLine \/ r.buffer # "")
    /\ toolState' = <<d.state>>
    /\ threw' = d.thrown
    /\ calls' = IF d.thrown THEN InnerCatch(d.calls, "TypeError") ELSE d.calls
    /\ pc' = IF d.thrown THEN "done" ELSE "read"
    /\ ending' = IF d.thrown THEN "adapterThrew" ELSE ending
    /\ UNCHANGED <<text, options, kind, fed, emitted, aborted, abortedAt, response, hookVars, decoderVars, chatVars>>
StreamFeed(n, r) == StreamFed(n, r, DriveFrom(kind, toolState[1], r.data, 1, calls))
\* await reader.read() resolves with the next chunk
ReadChunk ==
    /\ pc = "read" /\ ~aborted /\ pos < Len(text)
    /\ \E n \in {ChunkSmall, ChunkLarge, Len(text) - pos} :
          /\ n <= Len(text) - pos
          /\ StreamFeed(n, feed(buffer, Sub(text, pos + 1, pos + n), options))
\* await reader.read() resolves with done
ReadDone ==
    /\ pc = "read" /\ ~aborted /\ pos = Len(text)
    /\ StreamEnds(ReadIsDone(calls), "exhausted")
\* await reader.read() rejects
ReadReject ==
    /\ pc = "read"
    /\ StreamEnds(InnerCatch(calls, IF aborted THEN "AbortError" ELSE "TypeError"),
                  IF aborted THEN "aborted" ELSE "readFailed")

StreamNext ==
    \/ Abort \/ FetchOk \/ FetchNotOk \/ FetchNullBody \/ FetchReject
    \/ TextResolve \/ TextReject \/ ReadChunk \/ ReadDone \/ ReadReject
SpecStream == StreamInit /\ [][StreamNext]_vars

IsTerminal(c) == c.cb \in {"onComplete", "onError"}
IsOnEvent(c) == c.cb = "onEvent"
LastCall == calls[Len(calls)]
\* the request or a read failed, the signal not having fired
TransportFailed == ending \in {"requestFailed", "httpError", "nullBody", "readFailed"}
\* the onEvent calls a fresh adapter gives for the part of the body read so
\* far, taken line by line in the order of the body
EventsInBodyOrder ==
    DriveFrom(kind, CreateAdapter(kind), feed("", Sub(text, 1, pos), options).data,
              1, <<>>).calls

\* C1: the call ends with exactly one of onComplete and onError, invoked once
\* and last; onComplete when the body is exhausted, onError when the request
\* or a read fails; onEvent receives the events in the order of the data lines
C1_OneTerminalCallback ==
    /\ pc # "done" => \A j \in 1..Len(calls) : ~IsTerminal(calls[j])
    /\ pc = "done" =>
          /\ Len(calls) >= 1 /\ IsTerminal(LastCall)
          /\ \A j \in 1..(Len(calls) - 1) : ~IsTerminal(calls[j])
    /\ ending = "exhausted" => LastCall.cb = "onComplete"
    /\ TransportFailed => LastCall.cb = "onError"
    /\ SelectSeq(calls, IsOnEvent) = EventsInBodyOrder

\* a body read to its end in chunks cut inside lines, two events forwarded
C1_Witness ==
    /\ pc = "done" /\ ending = "exhausted" /\ cutMidLine
    /\ Len(calls) >= 3 /\ LastCall.cb = "onComplete"
    /\ calls[1].event.type = "llm_token" /\ calls[2].event.type = "llm_token"

\* C2: a call whose signal fired ends with onComplete and never calls onError
C2_CancelCompletes ==
    (pc = "done" /\ aborted) =>
        /\ LastCall.cb = "onComplete"
        /\ \A j \in 1..Len(calls) : calls[j].cb # "onError"

\* C9: with no cancellation and no transport failure, a body holding a bad
\* line and then the line of "Hi" gives the event of "Hi" and ends with
\* onComplete
C9_BadLineSkipped ==
    (pc = "done" /\ ~aborted /\ ~TransportFailed /\ text \in BadLineBodies) =>
        /\ LastCall.cb = "onComplete"
        /\ \E j \in 1..Len(calls) : calls[j] = OnEvent(Token(JStr("Hi")))

(***************************************************************************)
(* SpecTurns: successive streaming calls of useChatMessages.sendMessage    *)
(* through streamConfig  (hooks/useChatMessages.ts, openAIStreamConfig)    *)
(***************************************************************************)
MaxTurns == 2
MaxTurnFrames == 2
TurnFrames ==
    { Frame("name", 0, "search", ""), Frame("name", 1, "calc", ""),
      Frame("frag", 0, "", "1,"), Frame("finish", 0, "", ""),
      Frame("text", 0, "", "Hi") }

\* openAIStreamConfig(...) ran and built the config with its adapter; a
\* caller keeps that config ("stable": a constant or a memoized value) or
\* builds a new one in every render ("perRender")
TurnsInit ==
    /\ configMode \in {"stable", "perRender"}
    /\ kind = "openai" /\ toolState = <<CreateAdapter("openai")>>
    /\ fed = <<>> /\ emitted = <<>> /\ threw = FALSE
    /\ turn = 0 /\ stateAtStart = <<>>
    /\ pc = "idle" /\ aborted = FALSE /\ abortedAt = "none" /\ ending = "none"
    /\ calls = <<>> /\ response = NoResponse
    /\ ParserIdle /\ DecoderIdle /\ ChatIdle

\* the adapter of the config that the sendMessage closure in use holds: the
\* one adapter of a stable config, a new one when the render that made the
\* closure built a new config
ConfigAdapter == IF configMode = "perRender" THEN CreateAdapter(kind) ELSE toolState[1]

\* sendMessage, streamConfig branch: streamSSE({...restConfig, ...}) starts
\* with restConfig.adapter
SendMessage ==
    /\ pc = "idle" /\ turn < MaxTurns
    /\ turn' = turn + 1
    /\ pc' = "streaming"
    /\ toolState' = <<ConfigAdapter>>
    /\ stateAtStart' = Append(stateAtStart, ConfigAdapter)
    /\ fed' = Append(fed, <<>>) /\ emitted' = Append(emitted, <<>>)
    /\ UNCHANGED <<parserVars, kind, threw, aborted, abortedAt, response, ending, calls, configMode, decoderVars, chatVars>>

\* the running call hands frame f to its adapter; r is what the adapter did
TurnInvoked(f, r) ==
    /\ toolState' = <<r.state>>
    /\ fed' = [fed EXCEPT ![turn] = Append(@, f)]
    /\ emitted' = [emitted EXCEPT ![turn] = Append(@, r.event)]
    /\ threw' = (threw \/ r.thrown)
    /\ UNCHANGED <<parserVars, kind, streamVars, hookVars, decoderVars, chatVars>>
TurnFrame ==
    /\ pc = "streaming" /\ Len(fed[turn]) < MaxTurnFrames
    /\ \E f \in TurnFrames : TurnInvoked(f, Adapt(kind, toolState[1], Decode(kind, f)))

\* the call ends: the body is exhausted, the call fails or is stopped
TurnEnds ==
    /\ pc = "streaming"
    /\ pc' = "idle"
    /\ UNCHANGED <<parserVars, adapterVars, aborted, abortedAt, response, ending, calls, hookVars, decoderVars, chatVars>>

TurnsNext == SendMessage \/ TurnFrame \/ TurnEnds
SpecTurns == TurnsInit /\ [][TurnsNext]_vars

\* C7: every streaming call begins with an empty tool-call state, and the
\* events of a turn are those a fresh adapter returns for the frames of that turn
C7_TurnStartsEmpty ==
    /\ \A t \in 1..Len(stateAtStart) : stateAtStart[t] = <<>>
    /\ \A t \in 1..Len(fed) : emitted[t] = RunAlone(kind, fed[t])

(***************************************************************************)
(* SpecDecoder: one call of safeJsonParse(jsonString, maxSize, maxDepth)   *)
(* or of parseSSELine(line, options)                                       *)
(***************************************************************************)
MaxNest == 3
MaxDepthLimit == 3

\* a scalar, or a container that is empty or holds scalars
InnermostDocs == {"1", "[]", "{}", "[1]", "{\"a\":1}", "[1,\"x\"]"}
RECURSIVE NestedDocs(_)
\* the documents that wrap an innermost one in n arrays or objects
NestedDocs(n) ==
    IF n = 0 THEN InnermostDocs
    ELSE {"[" \o d \o "]" : d \in NestedDocs(n - 1)}
         \cup {"{\"a\":" \o d \o "}" : d \in NestedDocs(n - 1)}
         \cup {"[1," \o d \o "]" : d \in NestedDocs(n - 1)}
DepthDocs == UNION {NestedDocs(n) : n \in 0..MaxNest}

SafeJsonParseArgs(jsonString, maxSize, maxDepth) ==
    [fn |-> "safeJsonParse", str |-> jsonString, maxSize |-> maxSize,
     maxDepth |-> maxDepth, dataField |-> ""]
DepthInputs ==
    {SafeJsonParseArgs(d, DEFAULT_MAX_JSON_SIZE, n) : d \in DepthDocs, n \in 0..MaxDepthLimit}

MaxSizeLimit == 10
\* well-formed payloads, of one-byte characters or holding characters of two
\* and three bytes, and two malformed ones
SizePayloads ==
    { "1", "12", "[1,2]", "\"" \o TwoByteChar \o "\"", "\"" \o ThreeByteChar \o "\"",
      "\"" \o TwoByteChar \o ThreeByteChar \o "\"",
      "{\"a\":\"" \o TwoByteChar \o "\"}", "[1,2", "{oops" }
SizeInputs ==
    {SafeJsonParseArgs(p, m, DEFAULT_MAX_JSON_DEPTH) : p \in SizePayloads, m \in 1..MaxSizeLimit}

ParseSSELineArgs(line, dataField) ==
    [fn |-> "parseSSELine", str |-> line, maxSize |-> DEFAULT_MAX_JSON_SIZE,
     maxDepth |-> DEFAULT_MAX_JSON_DEPTH, dataField |-> dataField]
SSELines ==
    { "", "   ", ":", ": ping", "event: x", "datax: 1", "data : 1",
      "data: [DONE]", "data:[DONE]", "  data:  [DONE]  ", "msg: [DONE]",
      "data: hello", "data: {oops", "data:", "data: ",
      "data: {\"a\":1}", "data:1", "data: \"x\"", " data: [1,2] \r", "msg: 1",
      "data: true", "data: null" }
LineInputs == {ParseSSELineArgs(l, f) : l \in SSELines, f \in {"data", "msg"}}

DecoderInputs == DepthInputs \cup SizeInputs \cup LineInputs

DecoderInit ==
    /\ arg \in DecoderInputs /\ result = Pending
    /\ ParserIdle /\ AdapterIdle /\ StreamIdle /\ HookIdle /\ ChatIdle

\* safeJsonParse(jsonString, maxSize, maxDepth) returns
CallSafeJsonParse ==
    /\ ~result.done /\ arg.fn = "safeJsonParse"
    /\ result' = Returns(safeJsonParse(arg.str, arg.maxSize, arg.maxDepth))
    /\ UNCHANGED <<parserVars, adapterVars, streamVars, hookVars, arg, chatVars>>

\* parseSSELine(line, {dataField}) returns
CallParseSSELine ==
    /\ ~result.done /\ arg.fn = "parseSSELine"
    /\ result' = Returns(parseSSELine(arg.str, [DefaultOptions EXCEPT !.dataField = arg.dataField]))
    /\ UNCHANGED <<parserVars, adapterVars, streamVars, hookVars, arg, chatVars>>

DecoderNext == CallSafeJsonParse \/ CallParseSSELine
SpecDecoder == DecoderInit /\ [][DecoderNext]_vars

RECURSIVE NestingDepth(_), DeepestFrom(_, _)
\* the greatest nesting depth among the members xs[i], xs[i+1], ...
DeepestFrom(xs, i) ==
    IF i > Len(xs) THEN 0
    ELSE IF NestingDepth(xs[i]) >= DeepestFrom(xs, i + 1) THEN NestingDepth(xs[i])
    ELSE DeepestFrom(xs, i + 1)
\* nesting depth of a decoded value: 0 for a scalar, and one level for every
\* array or object around the deepest value
NestingDepth(x) ==
    IF x.t = "arr" THEN 1 + DeepestFrom(x.v, 1)
    ELSE IF x.t = "obj" THEN 1 + DeepestFrom([i \in 1..Len(x.v) |-> x.v[i].v], 1)
    ELSE 0

\* C11: safeJsonParse with depth limit N returns the decoded value of a
\* well-formed document of nesting depth at most N, and null for a document
\* of nesting depth N + 1 or more
C11_DepthLimit ==
    (result.done /\ arg.fn = "safeJsonParse" /\ arg.str \in DepthDocs) =>
        result.val = IF NestingDepth(JSONParse(arg.str).val) <= arg.maxDepth
                     THEN JSONParse(arg.str).val
                     ELSE JNull

\* C12: safeJsonParse with size limit M returns null for a payload of more
\* than M UTF-8 bytes, and the decoded value for a well-formed payload within
\* the depth limit of at most M bytes, M itself included
C12_SizeLimit ==
    (result.done /\ arg.fn = "safeJsonParse" /\ arg.str \in SizePayloads) =>
        /\ BlobSize(arg.str) > arg.maxSize => IsNull(result.val)
        /\ (/\ BlobSize(arg.str) <= arg.maxSize
            /\ JSONParse(arg.str).ok
            /\ NestingDepth(JSONParse(arg.str).val) <= arg.maxDepth)
              => result.val = JSONParse(arg.str).val

\* a payload of exactly M bytes in fewer than M characters was decoded
C12_Witness ==
    /\ result.done /\ arg.fn = "safeJsonParse" /\ arg.str \in SizePayloads
    /\ BlobSize(arg.str) = arg.maxSize /\ Len(arg.str) < arg.maxSize
    /\ result.val = JStr(TwoByteChar \o ThreeByteChar)

\* the text after the field prefix of a data line, trimmed
LinePayload(trimmed, field) == Trim(Sub(trimmed, Len(field) + 2, Len(trimmed)))
\* what the rules give for a payload that is not empty
PayloadRule(payload, parsed) ==
    IF payload = "[DONE]" THEN JNull
    ELSE IF parsed.ok THEN parsed.val
    ELSE JStr(payload)
\* what the rules, applied in order, give for a trimmed line
LineRule(trimmed, field) ==
    IF trimmed = "" THEN JNull
    ELSE IF Sub(trimmed, 1, 1) = ":" THEN JNull
    ELSE IF Sub(trimmed, 1, Len(field) + 1) # field \o ":" THEN JNull
    ELSE PayloadRule(LinePayload(trimmed, field), JSONParse(LinePayload(trimmed, field)))
\* a data line without payload: the rules name no result for it
IsBareDataLine(trimmed, field) ==
    Sub(trimmed, 1, Len(field) + 1) = field \o ":" /\ LinePayload(trimmed, field) = ""

\* C13: parseSSELine returns null for a blank line, a comment line, a line of
\* another field and a "[DONE]" data line; for any other data line with a
\* payload it returns the decoded JSON value, or the trimmed payload text
\* when the payload is not JSON
C13_LineRules ==
    (result.done /\ arg.fn = "parseSSELine" /\ ~IsBareDataLine(Trim(arg.str), arg.dataField)) =>
        result.val = LineRule(Trim(arg.str), arg.dataField)

\* the content_block_start frames before frame j whose tool-use block at the
\* slot is still open: no content_block_stop for the slot came since
OpenStarts(fr, slot, j) ==
    {p \in 1..(j - 1) :
        /\ fr[p].role = "name" /\ fr[p].slot = slot
        /\ \A q \in (p + 1)..(j - 1) : ~(fr[q].role = "finish" /\ fr[q].slot = slot)}
Last(S) == CHOOSE p \in S : \A q \in S : q <= p
\* what content_block_stop frame j is to give, p being the start of the block
StopRule(fr, j, starts) ==
    IF starts = {} THEN NoEvent
    ELSE ToolEnd(JStr(fr[Last(starts)].name),
                 JStr(SlotFragments(fr, fr[j].slot, Last(starts), j)))

\* C14: an Anthropic instance returns ToolStart for a content_block_start of a
\* tool_use block; for content_block_stop at an index it returns ToolEnd with
\* the block's name and the input_json_delta fragments received for the index
\* since the start, concatenated in arrival order, when a block is open at
\* the index, and null when none is (never opened, or closed already)
C14_AnthropicToolFlow ==
    \A i \in Instances : \A j \in 1..Len(fed[i]) :
        kind = "anthropic" =>
            /\ fed[i][j].role = "name" =>
                  /\ emitted[i][j].type = "tool_start"
                  /\ emitted[i][j].tool_name = JStr(fed[i][j].name)
            /\ fed[i][j].role = "finish" =>
                  emitted[i][j] = StopRule(fed[i], j, OpenStarts(fed[i], fed[i][j].slot, j))

\* a block was opened, received two different fragments and was closed
C14_Witness ==
    \E i \in Instances :
        /\ kind = "anthropic" /\ Len(fed[i]) = 4
        /\ fed[i][1].role = "name" /\ fed[i][4].role = "finish"
        /\ fed[i][2].role = "frag" /\ fed[i][3].role = "frag"
        /\ fed[i][2].frag # fed[i][3].frag
        /\ emitted[i][4] = ToolEnd(JStr("search"), JStr(fed[i][2].frag \o fed[i][3].frag))
        /\ toolState[i] = <<>>

TextAdapterKinds == {"openaiText", "anthropicText", "geminiText"}
\* C15: a text-only adapter keeps no state and returns, for every frame,
\* null or an event of type llm_token
C15_TextAdaptersOnlyTokens ==
    kind \in TextAdapterKinds =>
        /\ toolState[1] = <<>>
        /\ \A j \in 1..Len(emitted[1]) : emitted[1][j].type \in {"null", "llm_token"}

(***************************************************************************)
(* Transport failures of streamSSE  (SpecStream)                           *)
(***************************************************************************)
\* C20: a response that is not ok ends the call with the single callback
\* onError(HTTP <status>: <body>), a response without body and a rejected
\* fetch with the single callback onError; a read that fails ends the call
\* with onError, without onComplete and without any event beyond those of
\* the data lines read
C20_TransportFailuresOnlyOnError ==
    /\ ending = "httpError" =>
          /\ ~response.ok
          /\ calls = <<OnError("HTTP " \o ToString(response.status) \o ": "
                                \o response.errorText)>>
    /\ ending = "nullBody" => calls = <<OnError("Response body is null")>>
    /\ ending = "requestFailed" => (Len(calls) = 1 /\ calls[1].cb = "onError")
    /\ ending = "readFailed" =>
          /\ LastCall.cb = "onError"
          /\ \A j \in 1..Len(calls) : calls[j].cb # "onComplete"
          /\ SelectSeq(calls, IsOnEvent) = EventsInBodyOrder

\* a response of status 500 whose body was read and reported
C20_Witness ==
    /\ ending = "httpError" /\ response.status = 500
    /\ response.errorText = "quota exceeded"
    /\ calls = <<OnError("HTTP 500: quota exceeded")>>

(***************************************************************************)
(* useChatMessages  (hooks/useChatMessages.ts)                             *)
(***************************************************************************)
UserMessage(id, userInput) ==
    [id |-> id, role |-> "user", content |-> userInput, contentSegments |-> <<>>]
AssistantMessage(id) ==
    [id |-> id, role |-> "assistant", content |-> "", contentSegments |-> <<>>]
FullMessage(id, role, content) ==
    [id |-> id, role |-> role, content |-> content, contentSegments |-> <<>>]

\* a variant that keeps the oldest messages
trimKeepsOldest(msgs, max) ==
    IF max <= 0 \/ Len(msgs) <= max THEN msgs ELSE SubSeq(msgs, 1, max)
\* msgs.slice(-maxMessages) once the limit is exceeded
trimMessages(msgs, max) ==
    IF max <= 0 \/ Len(msgs) <= max THEN msgs
    ELSE SubSeq(msgs, Len(msgs) - max + 1, Len(msgs))

\* lastMessage && lastMessage.role === "assistant"
LastIsAssistant(msgs) == Len(msgs) > 0 /\ msgs[Len(msgs)].role = "assistant"
\* lastMessage.content = content
SetLastContent(msgs, content) ==
    IF LastIsAssistant(msgs) THEN [msgs EXCEPT ![Len(msgs)].content = content] ELSE msgs
\* lastMessage.contentSegments = segments
SetLastSegments(msgs, segments) ==
    IF LastIsAssistant(msgs)
    THEN [msgs EXCEPT ![Len(msgs)].contentSegments = segments] ELSE msgs

TextSegment(content) == [type |-> "text", content |-> content]
\* a variant that pushes a new segment for every event
PushTextAlways(segments, current) == Append(segments, TextSegment(current))
\* the last segment replaced when it is a text segment, a new one pushed
\* otherwise
PushText(segments, current) ==
    IF Len(segments) > 0 /\ segments[Len(segments)].type = "text"
    THEN [segments EXCEPT ![Len(segments)] = TextSegment(current)]
    ELSE Append(segments, TextSegment(current))

\* the state and the refs the callbacks of a turn work on
HookState ==
    [messages |-> messages, isStreaming |-> isStreaming,
     accumulatedContentRef |-> accumulatedContentRef,
     contentSegmentsRef |-> contentSegmentsRef,
     currentTextSegmentRef |-> currentTextSegmentRef,
     abortControllerRef |-> abortControllerRef, handled |-> handled]
HookBecomes(h) ==
    /\ messages' = h.messages /\ isStreaming' = h.isStreaming
    /\ accumulatedContentRef' = h.accumulatedContentRef
    /\ contentSegmentsRef' = h.contentSegmentsRef
    /\ currentTextSegmentRef' = h.currentTextSegmentRef
    /\ abortControllerRef' = h.abortControllerRef /\ handled' = h.handled

\* contentSegmentsRef.current = segments, and the setMessages that follows
SegmentsSet(h, segments) ==
    [h EXCEPT !.contentSegmentsRef = segments,
              !.messages = SetLastSegments(@, segments)]
ContentAdded(h, acc, cur) ==
    SegmentsSet([h EXCEPT !.accumulatedContentRef = acc,
                          !.currentTextSegmentRef = cur,
                          !.messages = SetLastContent(@, acc)],
                PushText(h.contentSegmentsRef, cur))
\* a variant that keeps only the content of the last event
AddContentOverwrites(h, contentToAdd) == ContentAdded(h, contentToAdd, contentToAdd)
AddContent(h, contentToAdd) ==
    ContentAdded(h, h.accumulatedContentRef \o contentToAdd,
                 h.currentTextSegmentRef \o contentToAdd)
HandleEvent(h, event) ==
    IF event.type \in {"llm_token", "tool_content"} /\ Truthy(event.content)
    THEN AddContent(h, ToStr(event.content))
    ELSE h
\* tool_start and tool_end are ignored, error is logged
handleStreamEvent(h, event) ==
    HandleEvent([h EXCEPT !.handled = Append(@, event)], event)

finalizeAssistantMessage(h) ==
    IF Trim(h.currentTextSegmentRef) # ""
    THEN SegmentsSet(h, PushText(h.contentSegmentsRef, h.currentTextSegmentRef))
    ELSE h

\* the callbacks sendMessage hands to streamSSE
HookOnComplete(h) ==
    [finalizeAssistantMessage(h) EXCEPT !.isStreaming = FALSE,
                                        !.abortControllerRef = FALSE]
HookOnError(h) == [h EXCEPT !.isStreaming = FALSE, !.abortControllerRef = FALSE]
Callback(h, c) ==
    CASE c.cb = "onEvent"    -> handleStreamEvent(h, c.event)
      [] c.cb = "onComplete" -> HookOnComplete(h)
      [] OTHER               -> HookOnError(h)
RECURSIVE Callbacks(_, _, _)
\* the callbacks cs[i], cs[i+1], ... run in order
Callbacks(h, cs, i) ==
    IF i > Len(cs) THEN h ELSE Callbacks(Callback(h, cs[i]), cs, i + 1)

(***************************************************************************)
(* SpecChat: a conversation of useChatMessages whose streamConfig holds    *)
(* one OpenAI or Anthropic adapter; a turn is one streamSSE call, and      *)
(* sendMessage is called while no streamSSE call is in flight              *)
(***************************************************************************)
MaxChatTurns == 2
MaxIds == 3
MaxMessagesLimit == 2

UserInputs == {"", "  ", "hi"}
AppendedMessages == {[role |-> "assistant", content |-> "memo"]}

\* an OpenAI body of the data lines of the tokens cs, then [DONE]
RECURSIVE TokenLines(_, _)
TokenLines(cs, i) ==
    IF i > Len(cs) THEN "" ELSE TextLine(cs[i]) \o "\n" \o TokenLines(cs, i + 1)
TokenBody(cs) == TokenLines(cs, 1) \o "data: [DONE]\n\n"
TokenLists == {<<"Hel", "lo">>, <<"A">>, <<" ", "x", "yz">>}
AnthropicText(str) ==
    DataLine("{\"type\":\"content_block_delta\",\"delta\":{\"type\":\"text_delta\",\"text\":"
             \o Quote(str) \o "}}")
AnthropicError == DataLine("{\"type\":\"error\",\"error\":{\"message\":\"boom\"}}")
ErrorFirstBody == AnthropicError \o AnthropicText("Hi")
ErrorLastBody == AnthropicText("Hi") \o AnthropicError
\* an OpenAI body in which a tool call stands between two tokens
ToolTurnBody ==
    TextLine("A") \o DataLine(OpenAIPayload(Frame("name", 0, "search", "")))
    \o DataLine(OpenAIPayload(Frame("finish", 0, "", "")))
    \o TextLine("b") \o "data: [DONE]\n\n"
ChatBodies(k) ==
    IF k = "anthropic" THEN {ErrorFirstBody, ErrorLastBody}
    ELSE {TokenBody(cs) : cs \in TokenLists}

ChatInit ==
    /\ kind \in {"openai", "anthropic"}
    /\ toolState = <<CreateAdapter(kind)>>
    /\ fed = <<>> /\ emitted = <<>> /\ threw = FALSE
    /\ maxMessages \in 0..MaxMessagesLimit
    /\ messages = <<>> /\ isStreaming = FALSE /\ accumulatedContentRef = ""
    /\ contentSegmentsRef = <<>> /\ currentTextSegmentRef = ""
    /\ abortControllerRef = FALSE /\ idsIssued = 0
    /\ historyBefore = <<>> /\ untrimmed = <<>> /\ handled = <<>>
    /\ disturbed = FALSE /\ latePending = <<>>
    /\ configMode = "stable" /\ turn = 0 /\ stateAtStart = <<>>
    /\ ParserIdle /\ StreamIdle /\ DecoderIdle

\* accumulatedContentRef.current = ""; contentSegmentsRef.current = [];
\* currentTextSegmentRef.current = ""
RefsReset ==
    /\ accumulatedContentRef' = "" /\ contentSegmentsRef' = <<>>
    /\ currentTextSegmentRef' = ""

\* sendMessage(userInput, modelName) with a blank input returns at once
SendBlank ==
    /\ pc \in {"idle", "done"}
    /\ \E userInput \in UserInputs : Trim(userInput) = ""
    /\ UNCHANGED vars

\* sendMessage up to its await: the user message and the assistant
\* placeholder are added, the refs reset, and streamSSE runs up to
\* await fetch(...) for a response of the given body
SendStarts(userInput, body) ==
    /\ messages' = trimMessages(
                      Append(trimMessages(Append(messages,
                                                 UserMessage(idsIssued + 1, userInput)),
                                          maxMessages),
                             AssistantMessage(idsIssued + 2)),
                      maxMessages)
    /\ idsIssued' = idsIssued + 2
    /\ RefsReset
    /\ isStreaming' = TRUE /\ abortControllerRef' = TRUE
    /\ historyBefore' = messages
    /\ untrimmed' = untrimmed \o <<idsIssued + 1, idsIssued + 2>>
    /\ handled' = <<>> /\ disturbed' = FALSE
    /\ turn' = turn + 1
    /\ text' = body /\ pos' = 0 /\ buffer' = "" /\ cutMidLine' = FALSE
    /\ pc' = "fetch" /\ aborted' = FALSE /\ abortedAt' = "none" /\ ending' = "none"
    /\ calls' = <<>> /\ response' = NoResponse
    /\ UNCHANGED <<options, delivered, adapterVars, configMode,
                   stateAtStart, decoderVars, maxMessages>>
ChatSendMessage ==
    /\ pc \in {"idle", "done"} /\ turn < MaxChatTurns
    /\ UNCHANGED latePending
    /\ \E userInput \in UserInputs, body \in ChatBodies(kind) :
          Trim(userInput) # "" /\ SendStarts(userInput, body)

\* the last message removed when it is an assistant message of blank content
WithoutEmptyPlaceholder(prev) ==
    IF LastIsAssistant(prev) /\ Trim(prev[Len(prev)].content) = ""
    THEN SubSeq(prev, 1, Len(prev) - 1) ELSE prev
\* the ids of the messages msgs
Ids(msgs) == [j \in 1..Len(msgs) |-> msgs[j].id]
IdsWithout(ids, gone) == SelectSeq(ids, LAMBDA id : id \notin gone)

\* stopStreaming() while abortControllerRef.current is set
StopStreaming ==
    /\ abortControllerRef
    /\ aborted' = TRUE /\ abortedAt' = pc
    /\ abortControllerRef' = FALSE /\ isStreaming' = FALSE
    /\ RefsReset
    /\ messages' = WithoutEmptyPlaceholder(messages)
    /\ untrimmed' = IdsWithout(untrimmed,
                               {messages[j].id : j \in 1..Len(messages)}
                               \ {messages'[j].id : j \in 1..Len(messages')})
    /\ UNCHANGED <<parserVars, adapterVars, pc, ending, calls, response, hookVars,
                   decoderVars, maxMessages, idsIssued, historyBefore, handled,
                   disturbed, latePending>>
\* stopStreaming() while abortControllerRef.current is null
StopIdle ==
    /\ ~abortControllerRef
    /\ UNCHANGED vars

ClearChat ==
    /\ messages' = <<>> /\ RefsReset
    /\ untrimmed' = <<>>
    /\ disturbed' = TRUE
    /\ UNCHANGED <<parserVars, adapterVars, streamVars, hookVars, decoderVars,
                   isStreaming, abortControllerRef, maxMessages, idsIssued,
                   historyBefore, handled, latePending>>

\* appendMessage(message) for a message without id
AppendMessage ==
    /\ idsIssued < MaxIds
    /\ \E message \in AppendedMessages :
          messages' = trimMessages(
                         Append(messages, FullMessage(idsIssued + 1, message.role,
                                                      message.content)),
                         maxMessages)
    /\ idsIssued' = idsIssued + 1
    /\ untrimmed' = Append(untrimmed, idsIssued + 1)
    /\ disturbed' = TRUE
    /\ UNCHANGED <<parserVars, adapterVars, streamVars, hookVars, decoderVars,
                   isStreaming, accumulatedContentRef, contentSegmentsRef,
                   currentTextSegmentRef, abortControllerRef, maxMessages,
                   historyBefore, handled, latePending>>

\* streamSSE invoked the callbacks cs beyond those of calls
HookCalled(cs) ==
    /\ calls' = cs
    /\ HookBecomes(Callbacks(HookState, cs, Len(calls) + 1))
    /\ UNCHANGED <<maxMessages, idsIssued, historyBefore, untrimmed, disturbed,
                   latePending>>
\* the streamSSE call returns after the callbacks cs, for the reason why
ChatEnds(cs, why) ==
    /\ HookCalled(cs) /\ pc' = "done" /\ ending' = why
    /\ UNCHANGED <<parserVars, adapterVars, aborted, abortedAt, response, hookVars,
                   decoderVars>>

ChatFetchOk ==
    /\ pc = "fetch" /\ ~aborted
    /\ pc' = "read"
    /\ response' = [ok |-> TRUE, status |-> 200, errorText |-> "", hasBody |-> TRUE]
    /\ UNCHANGED <<parserVars, adapterVars, aborted, abortedAt, ending, calls,
                   hookVars, decoderVars, messages, isStreaming,
                   accumulatedContentRef, contentSegmentsRef, currentTextSegmentRef,
                   abortControllerRef, maxMessages, idsIssued, historyBefore,
                   untrimmed, handled, disturbed, latePending>>
ChatFetchReject ==
    /\ pc = "fetch"
    /\ ChatEnds(OuterCatch(calls, IF aborted THEN "AbortError" ELSE "TypeError"),
                IF aborted THEN "aborted" ELSE "requestFailed")
ChatFed(n, r, d) ==
    /\ pos' = pos + n
    /\ buffer' = r.buffer
    /\ cutMidLine' = (cutMidLine \/ r.buffer # "")
    /\ toolState' = <<d.state>>
    /\ threw' = d.thrown
    /\ HookCalled(IF d.thrown THEN InnerCatch(d.calls, "TypeError") ELSE d.calls)
    /\ pc' = IF d.thrown THEN "done" ELSE "read"
    /\ ending' = IF d.thrown THEN "adapterThrew" ELSE ending
    /\ UNCHANGED <<text, options, delivered, kind, fed, emitted, aborted,
                   abortedAt, response, hookVars, decoderVars>>
ChatFeed(n, r) == ChatFed(n, r, DriveFrom(kind, toolState[1], r.data, 1, calls))
ChatReadChunk ==
    /\ pc = "read" /\ ~aborted /\ pos < Len(text)
    /\ \E n \in {ChunkLarge, Len(text) - pos} :
          /\ n <= Len(text) - pos
          /\ ChatFeed(n, feed(buffer, Sub(text, pos + 1, pos + n), options))
ChatReadDone ==
    /\ pc = "read" /\ ~aborted /\ pos = Len(text)
    /\ ChatEnds(ReadIsDone(calls), "exhausted")
ChatReadReject ==
    /\ pc = "read"
    /\ ChatEnds(InnerCatch(calls, IF aborted THEN "AbortError" ELSE "TypeError"),
                IF aborted THEN "aborted" ELSE "readFailed")

ChatNext ==
    \/ SendBlank \/ ChatSendMessage \/ StopStreaming \/ StopIdle \/ ClearChat
    \/ AppendMessage \/ ChatFetchOk \/ ChatFetchReject \/ ChatReadChunk
    \/ ChatReadDone \/ ChatReadReject
SpecChat == ChatInit /\ [][ChatNext]_vars

IsContentEvent(ev) == ev.type \in {"llm_token", "tool_content"}
\* no llm_token or tool_content event of the turn has arrived
NoContentHandled == \A j \in 1..Len(handled) : ~IsContentEvent(handled[j])
\* stopStreaming ran in the turn, which saw no clearChat or appendMessage
OnlyStopped == turn > 0 /\ aborted /\ ~disturbed

\* C16: once stopStreaming has run in a turn in which no llm_token or
\* tool_content event has arrived, the history is the one sendMessage found
C16_StopBeforeTokenRestores ==
    (OnlyStopped /\ NoContentHandled) => messages = historyBefore

\* C17: once handleStreamEvent has received an error event in a turn, the
\* turn is no longer streaming
C17_ErrorEndsStreaming ==
    (\E j \in 1..Len(handled) : handled[j].type = "error") => ~isStreaming

RECURSIVE Concat(_, _)
\* cs[i] + cs[i+1] + ...
Concat(cs, i) == IF i > Len(cs) THEN "" ELSE cs[i] \o Concat(cs, i + 1)
\* onEvent for each token of cs in order, then onComplete
TokenCalls(cs) == [j \in 1..(Len(cs) + 1) |->
                      IF j <= Len(cs) THEN OnEvent(Token(JStr(cs[j]))) ELSE OnComplete]
\* the streamSSE call of the turn read its body to the end, and the turn saw
\* no stopStreaming, clearChat or appendMessage
TurnRanAlone == pc = "done" /\ ending = "exhausted" /\ ~aborted /\ ~disturbed

\* C18: for the OpenAI body of the tokens c1..cn and [DONE], read to its end
\* in any chunks, the callbacks are onEvent of the n llm_token events in
\* order and then onComplete once, and the assistant message of the turn
\* ends with the content c1 + ... + cn, the turn no longer streaming
C18_EndToEndTokens ==
    \A cs \in TokenLists :
        (kind = "openai" /\ text = TokenBody(cs) /\ TurnRanAlone) =>
            /\ calls = TokenCalls(cs)
            /\ LastIsAssistant(messages)
            /\ messages[Len(messages)].content = Concat(cs, 1)
            /\ ~isStreaming

\* the body of "Hel" and "lo" read in chunks that cut a line gave "Hello"
C18_Witness ==
    /\ kind = "openai" /\ text = TokenBody(<<"Hel", "lo">>) /\ TurnRanAlone
    /\ cutMidLine
    /\ Len(calls) = 3 /\ calls[3] = OnComplete
    /\ messages[Len(messages)].content = "Hello"
    /\ messages[Len(messages)].contentSegments = <<TextSegment("Hello")>>

\* the last n elements of seq, all of them when it has fewer
LastN(seq, n) == IF Len(seq) <= n THEN seq ELSE SubSeq(seq, Len(seq) - n + 1, Len(seq))
IsSuffix(a, b) == Len(a) <= Len(b) /\ a = LastN(b, Len(a))

\* C19: with maxMessages = m > 0 the history never holds more than m
\* messages; it is a suffix, in the original order, of the messages that
\* were added and not removed by stopStreaming or clearChat; it holds the
\* last m of them (all when fewer) in a turn that saw no stopStreaming and
\* at most one fewer otherwise; with maxMessages = 0 it holds all of them
C19_TrimKeepsNewest ==
    /\ maxMessages > 0 =>
          /\ Len(messages) <= maxMessages
          /\ IsSuffix(Ids(messages), untrimmed)
          /\ Len(messages) >= Len(LastN(untrimmed, maxMessages)) - 1
          /\ ~aborted => Ids(messages) = LastN(untrimmed, maxMessages)
    /\ maxMessages = 0 => Ids(messages) = untrimmed

\* a limit of two messages, five messages added, the last two kept
C19_Witness ==
    /\ maxMessages = 2 /\ Len(untrimmed) >= 5
    /\ Ids(messages) = SubSeq(untrimmed, Len(untrimmed) - 1, Len(untrimmed))

(***************************************************************************)
(* The OpenAI adapter after ToolEnd  (SpecAdapter)                         *)
(***************************************************************************)
EmittedOfType(i, type) == {j \in 1..Len(emitted[i]) : emitted[i][j].type = type}
\* C22: a finish frame that follows a finish frame which gave tool_end, no
\* tool call having started in between, gives no event; and an instance
\* never returns more tool_end events than tool_start events
C22_ToolEndClearsSlot ==
    \A i \in Instances :
        kind = "openai" =>
            /\ \A j, k \in 1..Len(fed[i]) :
                  ( /\ j < k
                    /\ fed[i][j].role = "finish" /\ emitted[i][j].type = "tool_end"
                    /\ fed[i][k].role = "finish"
                    /\ \A q \in (j + 1)..(k - 1) : fed[i][q].role # "name" )
                  => emitted[i][k] = NoEvent
            /\ Cardinality(EmittedOfType(i, "tool_end"))
                  <= Cardinality(EmittedOfType(i, "tool_start"))

(***************************************************************************)
(* Frames of several entries or parts  (SpecShapes)                        *)
(***************************************************************************)
\* the keys of the Map m
Keys(m) == {m[e].key : e \in 1..Len(m)}
\* the arguments recorded under key in m, "" when there is none
ArgumentsAt(m, key) ==
    IF MapIndex(m, key) = 0 THEN "" ELSE ToStr(m[MapIndex(m, key)].arguments)
\* the invocation that this step makes, of the one instance
Invokes(payload) ==
    /\ Len(fed'[1]) = Len(fed[1]) + 1
    /\ fed'[1][Len(fed'[1])].frag = payload
Returned == emitted'[1][Len(emitted'[1])]

\* C29: the OpenAI adapter handed a frame whose tool_calls are a fragment for
\* index 0, the start of "a" at 1, the start of "b" at 2 and a fragment for
\* index 0 returns tool_start for "a" and records index 1 alone: index 2 is
\* not recorded and the last fragment is not appended; handed a frame with
\* content, tool_calls and the finish reason it returns the llm_token and
\* leaves its state as it was
C29_FirstNamedEntryWins ==
    [][ kind = "openai" =>
          /\ Invokes(MultiStartFrame) =>
                /\ Returned = ToolStart(JStr("a"), JStr("1"))
                /\ Keys(toolState'[1]) = Keys(toolState[1]) \cup {JNum(1)}
                /\ ArgumentsAt(toolState'[1], JNum(1)) = "1"
                /\ ArgumentsAt(toolState'[1], JNum(0))
                      = (IF JNum(0) \in Keys(toolState[1])
                         THEN ArgumentsAt(toolState[1], JNum(0)) \o "x" ELSE "")
          /\ Invokes(ContentFirstFrame) =>
                /\ Returned = Token(JStr("Hi"))
                /\ toolState'[1] = toolState[1] ]_vars

\* the frame of several entries came after the start of a call at index 0
C29_Witness ==
    /\ kind = "openai" /\ Len(fed[1]) = 2
    /\ fed[1][1].frag = StartZeroFrame /\ fed[1][2].frag = MultiStartFrame
    /\ emitted[1][2] = ToolStart(JStr("a"), JStr("1"))
    /\ Keys(toolState[1]) = {JNum(0), JNum(1)}
    /\ ArgumentsAt(toolState[1], JNum(0)) = "0x"

(***************************************************************************)
(* SpecParts: one createGeminiAdapter instance handed frames of several    *)
(* parts                                                                   *)
(***************************************************************************)
MaxPartFrames == 2
\* the parts of a Gemini frame: one with empty text, one with text, a
\* function call and a function response
PartKinds == {"blank", "text", "call", "resp"}
Member(key, value) == [k |-> key, v |-> value]
\* the value of one part
PartValue(p) ==
    CASE p = "blank" -> JObj(<<Member("text", JStr(""))>>)
      [] p = "text"  -> JObj(<<Member("text", JStr("Hi"))>>)
      [] p = "call"  ->
           JObj(<<Member("functionCall",
                         JObj(<<Member("name", JStr("f")),
                                Member("args", JObj(<<Member("q", JNum(1))>>))>>))>>)
      [] OTHER       ->
           JObj(<<Member("functionResponse",
                         JObj(<<Member("name", JStr("f")),
                                Member("response", JObj(<<Member("ok", JBool(TRUE))>>))>>))>>)
\* the chunk { candidates: [ { content: { parts: [...] } } ] }
PartsChunk(ps) ==
    JObj(<<Member("candidates",
                  JArr(<<JObj(<<Member("content",
                                       JObj(<<Member("parts",
                                                     JArr([i \in 1..Len(ps) |->
                                                              PartValue(ps[i])]))>>))>>)>>))>>)
MaxParts == 2
PartLists == UNION {[1..n -> PartKinds] : n \in 1..MaxParts}

PartsInit ==
    /\ kind = "gemini"
    /\ toolState = <<CreateAdapter(kind)>>
    /\ fed = <<<<>>>> /\ emitted = <<<<>>>> /\ threw = FALSE
    /\ ParserIdle /\ StreamIdle /\ HookIdle /\ DecoderIdle /\ ChatIdle

\* adapter(rawEvent) for the frame of the parts ps
PartsInvoke ==
    /\ Len(fed[1]) < MaxPartFrames
    /\ \E ps \in PartLists :
          AdapterInvoked(1, [role |-> "parts", slot |-> 0, name |-> "", frag |-> ps],
                         Adapt(kind, toolState[1], PartsChunk(ps)))

PartsNext == PartsInvoke
SpecParts == PartsInit /\ [][PartsNext]_vars

PartEvent(p) ==
    CASE p = "text" -> Token(JStr("Hi"))
      [] p = "call" -> ToolStart(JStr("f"), JStr("{\"q\":1}"))
      [] p = "resp" -> ToolEnd(JStr("f"), JStr("{\"ok\":true}"))
      [] OTHER      -> NoEvent
RECURSIVE FirstPartEvent(_, _)
\* the event of the first of the parts ps[i], ps[i+1], ... that has one
FirstPartEvent(ps, i) ==
    IF i > Len(ps) THEN NoEvent
    ELSE IF PartEvent(ps[i]) # NoEvent THEN PartEvent(ps[i])
    ELSE FirstPartEvent(ps, i + 1)

LineFeedsRead == {j \in 1..pos : Char(text, j) = "\n"}
\* C28: there are never more events than line feeds read; the body that
\* ends inside the data line of "lost", read to its end, gives the event of
\* "Hi" and onComplete alone, the last line staying in the buffer
C28_UnterminatedLineDropped ==
    /\ Cardinality({j \in 1..Len(calls) : IsOnEvent(calls[j])})
          <= Cardinality(LineFeedsRead)
    /\ \A j \in 1..Len(calls) : calls[j] # OnEvent(Token(JStr("lost")))
    /\ (text = UnterminatedBody /\ ending = "exhausted") =>
          /\ calls = <<OnEvent(Token(JStr("Hi"))), OnComplete>>
          /\ buffer = "data: " \o OpenAIPayload(Frame("text", 0, "", "lost"))

\* the body without a final line feed was read to its end
C28_Witness ==
    /\ text = UnterminatedBody /\ ending = "exhausted" /\ pos = Len(text)
    /\ buffer # "" /\ LastCall = OnComplete /\ Len(calls) = 2

(***************************************************************************)
(* SpecReset: one createSSEParser instance on which feed and reset are     *)
(* called; text, pos and delivered count from the last reset on            *)
(***************************************************************************)
MaxResetLines == 2
ResetLines == {"data: 1", ": ping", "data: hello", ""}
RECURSIVE ResetTextsOf(_)
ResetTextsOf(n) ==
    IF n = 0 THEN {""}
    ELSE ResetTextsOf(n - 1)
         \cup {t \o l \o "\n" : t \in ResetTextsOf(n - 1), l \in ResetLines}
ResetTexts == {t \o tail : t \in ResetTextsOf(MaxResetLines), tail \in {"", "data: [3]"}}

ResetInit ==
    /\ text \in ResetTexts
    /\ options = DefaultOptions
    /\ pos = 0 /\ buffer = "" /\ delivered = <<>> /\ cutMidLine = FALSE
    /\ AdapterIdle /\ StreamIdle /\ HookIdle /\ DecoderIdle /\ ChatIdle

\* a variant of reset that leaves the buffer as it is
resetKeepsBuffer(buf) == buf
\* createSSEParser.reset: buffer = ''
reset(buf) == ""

\* parser.feed(chunk) with the next n characters of the text
ResetFeed ==
    \E n \in 1..(Len(text) - pos) :
        ParserFed(feed(buffer, Sub(text, pos + 1, pos + n), options), n)
\* parser.reset(): what was fed before is abandoned, the rest of the text
\* is what the parser is fed from now on
ResetCalled ==
    /\ pos > 0
    /\ buffer' = reset(buffer)
    /\ text' = Sub(text, pos + 1, Len(text))
    /\ pos' = 0 /\ delivered' = <<>> /\ cutMidLine' = FALSE
    /\ UNCHANGED <<options, adapterVars, streamVars, hookVars, decoderVars, chatVars>>

ResetNext == ResetFeed \/ ResetCalled
SpecReset == ResetInit /\ [][ResetNext]_vars

\* the position of the k-th line feed read, 0 for k = 0
LineFeedAt(k) ==
    IF k = 0 THEN 0
    ELSE CHOOSE j \in LineFeedsRead : Cardinality({q \in LineFeedsRead : q < j}) = k - 1
\* the k-th line that a line feed has terminated
TerminatedLine(k) == Sub(text, LineFeedAt(k - 1) + 1, LineFeedAt(k) - 1)
RECURSIVE ParsedOnce(_)
\* what parsing the first k terminated lines once each, in order, hands on
ParsedOnce(k) ==
    IF k = 0 THEN <<>>
    ELSE ParsedOnce(k - 1) \o DataIf(parseSSELine(TerminatedLine(k), options))

\* C25: the buffer holds no line feed: it is the text after the last line
\* feed fed since the parser was created or reset, and the values handed on
\* are those of the lines terminated since then, each parsed once, in order
C25_BufferIsPartialLine ==
    /\ \A j \in 1..Len(buffer) : Char(buffer, j) # "\n"
    /\ buffer = Sub(text, LineFeedAt(Cardinality(LineFeedsRead)) + 1, pos)
    /\ delivered = ParsedOnce(Cardinality(LineFeedsRead))

\* after a reset inside the line "data: hello", the rest of that line and
\* one more line were fed: the rest was parsed as a line of its own, which
\* carries no data, and nothing of the abandoned part was handed on
C25_Witness ==
    /\ text = "lo\ndata: 1\n" /\ pos = Len(text)
    /\ buffer = "" /\ delivered = <<JNum(1)>>

(***************************************************************************)
(* SpecCancel: the streamSSE call of SpecStream with a body reader that    *)
(* may still resolve a read with a chunk that had arrived before the       *)
(* signal fired                                                            *)
(***************************************************************************)
\* await reader.read() resolves with a chunk although the signal has fired:
\* the loop goes on to decoder.decode and parser.feed as for any chunk
ReadArrivedChunk ==
    /\ pc = "read" /\ aborted /\ pos < Len(text)
    /\ \E n \in {ChunkSmall, ChunkLarge, Len(text) - pos} :
          /\ n <= Len(text) - pos
          /\ StreamFeed(n, feed(buffer, Sub(text, pos + 1, pos + n), options))

CancelNext == StreamNext \/ ReadArrivedChunk
SpecCancel == StreamInit /\ [][CancelNext]_vars

\* C26: once the signal has fired, no step of the call feeds a chunk to the
\* parser or invokes onEvent
C26_NoFeedAfterSignal ==
    [][aborted => /\ pos' = pos /\ buffer' = buffer
                  /\ SelectSeq(calls', IsOnEvent) = SelectSeq(calls, IsOnEvent)]_vars

(***************************************************************************)
(* SpecToolChat: the conversation of SpecChat with the OpenAI adapter and  *)
(* bodies that hold tool calls between tokens                              *)
(***************************************************************************)
ToolChatBodies == {ToolTurnBody, TokenBody(<<"Hel", "lo">>)}
ToolChatInit == ChatInit /\ kind = "openai"
ToolSendMessage ==
    /\ pc \in {"idle", "done"} /\ turn < MaxChatTurns
    /\ UNCHANGED latePending
    /\ \E userInput \in UserInputs, body \in ToolChatBodies :
          Trim(userInput) # "" /\ SendStarts(userInput, body)
ToolChatNext ==
    \/ SendBlank \/ ToolSendMessage \/ StopStreaming \/ StopIdle \/ ClearChat
    \/ AppendMessage \/ ChatFetchOk \/ ChatFetchReject \/ ChatReadChunk
    \/ ChatReadDone \/ ChatReadReject
SpecToolChat == ToolChatInit /\ [][ToolChatNext]_vars

\* the turn is in flight and nothing but its own event handler has touched
\* the history since sendMessage
TurnInFlight == turn > 0 /\ isStreaming /\ abortControllerRef /\ ~aborted /\ ~disturbed
RECURSIVE HandledContent(_)
\* the contents of the llm_token and tool_content events among the first k
\* events of the turn, in arrival order
HandledContent(k) ==
    IF k = 0 THEN ""
    ELSE HandledContent(k - 1)
         \o (IF IsContentEvent(handled[k]) /\ Truthy(handled[k].content)
             THEN ToStr(handled[k].content) ELSE "")
RECURSIVE SegmentsContent(_, _)
SegmentsContent(segments, i) ==
    IF i > Len(segments) THEN ""
    ELSE segments[i].content \o SegmentsContent(segments, i + 1)
InFlightMessage == messages[Len(messages)]

MaxApiCalls == 3
OutcomeModes == {"stable", "api", "neither"}
OutcomeBody == TokenBody(<<"Hel", "lo">>)

OutcomesInit ==
    /\ configMode \in OutcomeModes
    /\ kind = "openai" /\ toolState = <<CreateAdapter(kind)>>
    /\ fed = <<>> /\ emitted = <<>> /\ threw = FALSE
    /\ maxMessages = 0
    /\ messages = <<>> /\ isStreaming = FALSE /\ accumulatedContentRef = ""
    /\ contentSegmentsRef = <<>> /\ currentTextSegmentRef = ""
    /\ abortControllerRef = FALSE /\ idsIssued = 0
    /\ historyBefore = <<>> /\ untrimmed = <<>> /\ handled = <<>>
    /\ disturbed = FALSE /\ latePending = <<>>
    /\ turn = 0 /\ stateAtStart = <<>>
    /\ ParserIdle /\ StreamIdle /\ DecoderIdle

\* sendMessage up to its try block, but for isStreaming and the controller
TurnBegins(userInput) ==
    /\ messages' = trimMessages(
                      Append(trimMessages(Append(messages,
                                                 UserMessage(idsIssued + 1, userInput)),
                                          maxMessages),
                             AssistantMessage(idsIssued + 2)),
                      maxMessages)
    /\ idsIssued' = idsIssued + 2
    /\ RefsReset
    /\ historyBefore' = messages
    /\ untrimmed' = untrimmed \o <<idsIssued + 1, idsIssued + 2>>
    /\ handled' = <<>> /\ disturbed' = FALSE
    /\ turn' = turn + 1
    /\ calls' = <<>> /\ aborted' = FALSE /\ abortedAt' = "none"
    /\ UNCHANGED <<parserVars, adapterVars, response, configMode, stateAtStart,
                   decoderVars, maxMessages, latePending>>

\* the terminal callback a cancelled streamSSE call will still invoke: the
\* outer catch when fetch rejects, the inner catch when the read rejects
StillPending ==
    IF ~aborted THEN <<>>
    ELSE IF pc = "fetch" THEN <<OnError("AbortError")>>
    ELSE IF pc = "read" THEN <<OnComplete>>
    ELSE <<>>
\* sendMessage with streamConfig, once the turn before has ended or has
\* been cancelled by stopStreaming
StreamSend ==
    /\ configMode = "stable" /\ turn < MaxChatTurns
    /\ pc \in {"idle", "done"} \/ (aborted /\ pc \in {"fetch", "read"})
    /\ latePending' = latePending \o StillPending
    /\ SendStarts("hi", OutcomeBody)
\* sendMessage with neither sendMessageToApi nor streamConfig
SendNeither ==
    /\ configMode = "neither" /\ turn < MaxChatTurns
    /\ TurnBegins("hi")
    /\ isStreaming' = FALSE /\ abortControllerRef' = TRUE
    /\ pc' = "done" /\ ending' = "notConfigured"
\* sendMessage with sendMessageToApi, up to await sendMessageToApi(...)
ApiSend ==
    /\ configMode = "api" /\ turn < MaxChatTurns /\ pc \in {"idle", "done"}
    /\ TurnBegins("hi")
    /\ isStreaming' = TRUE /\ abortControllerRef' = TRUE
    /\ pc' = "api" /\ ending' = "none"
\* the send function invokes the callback c it was given
ApiCalls(c) ==
    /\ pc = "api" /\ Len(calls) < MaxApiCalls
    /\ HookCalled(Append(calls, c))
    /\ UNCHANGED <<parserVars, adapterVars, pc, aborted, abortedAt, ending, response,
                   hookVars, decoderVars>>
ApiEvent == ApiCalls(OnEvent(Token(JStr("Hi"))))
ApiComplete == ApiCalls(OnComplete)
ApiError == ApiCalls(OnError("boom"))
\* await sendMessageToApi(...) resolves
ApiReturns ==
    /\ pc = "api"
    /\ pc' = "done" /\ ending' = "returned"
    /\ UNCHANGED <<parserVars, adapterVars, aborted, abortedAt, calls, response,
                   hookVars, decoderVars, chatVars>>
\* await sendMessageToApi(...) rejects: the catch of sendMessage
ApiThrows ==
    /\ pc = "api"
    /\ pc' = "done" /\ ending' = "sendThrew"
    /\ isStreaming' = FALSE /\ abortControllerRef' = FALSE
    /\ UNCHANGED <<parserVars, adapterVars, aborted, abortedAt, calls, response,
                   hookVars, decoderVars, messages, accumulatedContentRef,
                   contentSegmentsRef, currentTextSegmentRef, maxMessages, idsIssued,
                   historyBefore, untrimmed, handled, disturbed, latePending>>
\* the cancelled streamSSE call of an earlier turn invokes its terminal
\* callback and returns
LateTerminal ==
    /\ latePending # <<>>
    /\ HookBecomes(Callback(HookState, Head(latePending)))
    /\ latePending' = Tail(latePending)
    /\ UNCHANGED <<parserVars, adapterVars, streamVars, hookVars, decoderVars,
                   maxMessages, idsIssued, historyBefore, untrimmed, disturbed>>
\* await reader.read() resolves with a chunk that had arrived before
\* stopStreaming aborted the call
ChatReadArrived ==
    /\ pc = "read" /\ aborted /\ pos < Len(text)
    /\ \E n \in {ChunkLarge, Len(text) - pos} :
          /\ n <= Len(text) - pos
          /\ ChatFeed(n, feed(buffer, Sub(text, pos + 1, pos + n), options))

OutcomesNext ==
    \/ SendBlank \/ StreamSend \/ SendNeither \/ ApiSend \/ ApiEvent \/ ApiComplete
    \/ ApiError \/ ApiReturns \/ ApiThrows \/ LateTerminal \/ StopStreaming
    \/ StopIdle \/ ChatFetchOk \/ ChatFetchReject \/ ChatReadChunk \/ ChatReadArrived
    \/ ChatReadDone \/ ChatReadReject
SpecOutcomes == OutcomesInit /\ [][OutcomesNext]_vars

\* a terminal callback of the turn has run
TerminalRan == \E j \in 1..Len(calls) : IsTerminal(calls[j])
\* the turn has met one of its terminal outcomes: a terminal callback ran,
\* the send function threw, stopStreaming ran, or nothing was configured
TurnOver ==
    /\ turn > 0
    /\ \/ TerminalRan
       \/ aborted
       \/ pc = "done" /\ ending \in {"sendThrew", "notConfigured"}

\* C21: once a turn has met a terminal outcome, isStreaming is false and no
\* abort controller is registered
C21_TerminalReturnsToIdle == TurnOver => (~isStreaming /\ ~abortControllerRef)

\* C23: an event handled after the turn is over changes no message
C23_FinishedTurnImmutable ==
    [][(TurnOver /\ turn' = turn /\ Len(handled') > Len(handled))
          => messages' = messages]_vars

\* C27: from sendMessage until the turn's own terminal callback or
\* stopStreaming, isStreaming is true and the turn's controller is registered
C27_InFlightTurnCancellable ==
    (turn > 0 /\ pc \in {"fetch", "read", "api"} /\ ~aborted /\ ~TerminalRan)
        => (isStreaming /\ abortControllerRef)

====
